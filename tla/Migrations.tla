----------------------------- MODULE Migrations -----------------------------
(***************************************************************************)
(* The command that migrates the database (datastore/migrate.go), next to   *)
(* the API that is in use meanwhile.  The package comment of the migrations *)
(* says when it is run: after the new API is rolled out.  A migration       *)
(* converts rows one by one and is recorded when it is done; the API may    *)
(* only read in the meantime.                                                *)
(*                                                                         *)
(* There are three kinds of migrations:                                     *)
(*   "convert"  writes the rows of a table in their new form, with their    *)
(*              time stamps: those that do not have it (02, 05), or all of  *)
(*              them (03, 06, 09, 010);                                     *)
(*   "move"     creates a row for each reservation in the rows of sizes and *)
(*              then removes that field (07);                               *)
(*   "copy"     copies the prefix length of a partition to its super        *)
(*              network, or else a default, and then removes it (08).       *)
(***************************************************************************)
EXTENDS Naturals, Sequences, FiniteSets, SequencesExt

CONSTANTS
    Registered,        \* the migrations in the order of their registration
    KindOf,            \* the kind of each
    Rewriting,         \* those that convert all rows
    Rows,              \* rows that are converted
    VersionOf,         \* by which migration
    Bookings,          \* reservations in the rows of sizes
    Jobs,              \* runs of the command at a time
    Writers,           \* handlers of the API at a time
    MaxStops,          \* bound on runs that stop, fail, or end at a lower version
    MaxWrites,         \* bound on writes of the API
    MigrationsAssumed  \* what a run takes for granted

(***************************************************************************)
(*   "oneJob"     the command is not started while it runs                  *)
(*   "whole"      a run does not stop between the first and the last write  *)
(*                of a migration that moves or copies                       *)
(*   "untouched"  nobody updates a size or a partition between the rollout  *)
(*                of the API and the migration: the new API writes the row  *)
(*                without the old field                                     *)
(*   "granted"    a run does not stop after it recorded its last migration  *)
(***************************************************************************)
MigrationsAssumptions == {"oneJob", "whole", "untouched", "granted"}

Versions == Range(Registered)

\* Versions start at 1, and one migration copies (MustRegisterMigration, 08).
ASSUME MigrationsAssumption ==
    /\ Registered \in Seq(Nat \ {0})
    /\ KindOf \in [Versions -> {"convert", "move", "copy"}]
    /\ \A v, w \in Versions : KindOf[v] = "copy" /\ KindOf[w] = "copy" => v = w
    /\ Rewriting \subseteq {v \in Versions : KindOf[v] = "convert"}
    /\ VersionOf \in [Rows -> Versions]
    /\ MaxStops \in Nat /\ MaxWrites \in Nat
    /\ MigrationsAssumed \subseteq MigrationsAssumptions

VARIABLES
    version,    \* the highest version in the migration table
    writable,   \* whether the user of the API may write
    form,       \* the form of the rows: "old" or "new"
    booked,     \* reservations still in the rows of sizes
    reserved,   \* how many rows the table of reservations has for each of them
    length,     \* whether the partition has its prefix length
    copied,     \* the length of the super network
    job,
    writer,     \* a handler that read a row
    stops, writes

migrationsVars == <<version, writable, form, booked, reserved, length, copied, job, writer, stops, writes>>
data == <<form, booked, reserved, length, copied>>

Off == [at |-> "off", plan |-> <<>>, left |-> {}, current |-> {}]
NoRead == [row |-> "none", current |-> FALSE]

MigrationsTypeOK ==
    /\ version \in Versions \cup {0} /\ writable \in BOOLEAN /\ length \in BOOLEAN
    /\ form \in [Rows -> {"old", "new"}]
    /\ booked \subseteq Bookings /\ reserved \in [Bookings -> Nat]
    /\ copied \in {"unset", "own", "default"}
    /\ \A j \in Jobs :
          /\ job[j].at \in {"off", "version", "revoke", "list", "write", "remove", "record", "grant"}
          /\ Range(job[j].plan) \subseteq Versions
          /\ job[j].left \subseteq Rows \cup Bookings \cup {"network"}

MigrationsInit ==
    /\ version = 0 /\ writable = TRUE
    /\ form \in [Rows -> {"old", "new"}]
    /\ booked = Bookings /\ reserved = [b \in Bookings |-> 0]
    /\ length = TRUE /\ copied = "unset"
    /\ job = [j \in Jobs |-> Off] /\ writer = [c \in Writers |-> NoRead]
    /\ stops = 0 /\ writes = 0

----------------------------------------------------------------------------
\* Migrations.Between

\* Mutant of Sorted: the order of registration (the files are "01", ..., "010").
AsRegistered(vs) == SelectSeq(Registered, LAMBDA v : v \in vs)
\* SetToSortSeq(vs, <), of which the provers know nothing.
Sorted(vs) ==
    CHOOSE s \in [1..Cardinality(vs) -> vs] : \A i, k \in 1..Cardinality(vs) : i < k => s[i] < s[k]

Latest == CHOOSE v \in Versions : \A w \in Versions : w <= v
Between(current, target) == Sorted({v \in Versions : current < v /\ v <= target})

----------------------------------------------------------------------------
\* Migrate

JobAt(j, at) == job[j].at = at
Doing(j) == Head(job[j].plan)
Go(j, next) == job' = [job EXCEPT ![j] = next]
JobTo(j, at) == Go(j, [job[j] EXCEPT !.at = at])

Start(j) ==
    /\ JobAt(j, "off") /\ version < Latest
    /\ "oneJob" \in MigrationsAssumed => \A k \in Jobs : JobAt(k, "off")
    /\ JobTo(j, "version")
    /\ UNCHANGED <<version, writable, data, writer, stops, writes>>

\* A target below the version is an error, as is one that does not exist.
ReadVersion(j, target) ==
    /\ JobAt(j, "version")
    /\ LET plan == Between(version, target)
       IN  Go(j, IF plan = <<>> THEN Off ELSE [Off EXCEPT !.at = "revoke", !.plan = plan])
    /\ UNCHANGED <<version, writable, data, writer>>

\* Without the option the target is the newest version.
ToNewest(j) == ReadVersion(j, Latest) /\ UNCHANGED <<stops, writes>>

\* The bound counts the runs that are asked for less.
ToTarget(j) ==
    /\ stops < MaxStops /\ stops' = stops + 1
    /\ \E target \in Versions \ {Latest} : ReadVersion(j, target)
    /\ UNCHANGED writes

Revoke(j) ==
    /\ JobAt(j, "revoke")
    /\ writable' = FALSE
    /\ JobTo(j, "list")
    /\ UNCHANGED <<version, data, writer, stops, writes>>

\* What a migration goes through; some look at a row before they change it.
Found(v) ==
    CASE KindOf[v] = "convert" -> {r \in Rows : VersionOf[r] = v /\ (v \in Rewriting \/ form[r] = "old")}
      [] KindOf[v] = "move" -> booked
      [] OTHER -> {"network"}

List(j) ==
    /\ JobAt(j, "list")
    /\ Go(j, [job[j] EXCEPT !.at = "write", !.left = Found(Doing(j)), !.current = Found(Doing(j))])
    /\ UNCHANGED <<version, writable, data, writer, stops, writes>>

Stale(r) == [c \in Writers |-> IF writer[c].row = r THEN [writer[c] EXCEPT !.current = FALSE] ELSE writer[c]]

\* A row that was written since it was listed is an error, and the run ends.
Convert(j, r) ==
    /\ KindOf[Doing(j)] = "convert"
    /\ IF r \in job[j].current
       THEN /\ form' = [form EXCEPT ![r] = "new"]
            /\ writer' = Stale(r)
            /\ job' = [k \in Jobs |-> IF k = j THEN [job[k] EXCEPT !.left = @ \ {r}]
                                               ELSE [job[k] EXCEPT !.current = @ \ {r}]]
       ELSE JobTo(j, "grant") /\ UNCHANGED <<form, writer>>
    /\ UNCHANGED <<version, writable, booked, reserved, length, copied, stops, writes>>

\* The row gets an id of its own, so there may be any number of them.
Move(j, b) ==
    /\ KindOf[Doing(j)] = "move"
    /\ reserved' = [reserved EXCEPT ![b] = @ + 1]
    /\ Go(j, [job[j] EXCEPT !.left = @ \ {b}])
    /\ UNCHANGED <<version, writable, form, booked, length, copied, writer, stops, writes>>

Copy(j) ==
    /\ KindOf[Doing(j)] = "copy"
    /\ copied' = IF length THEN "own" ELSE "default"
    /\ Go(j, [job[j] EXCEPT !.left = {}])
    /\ UNCHANGED <<version, writable, form, booked, reserved, length, writer, stops, writes>>

Write(j) ==
    /\ JobAt(j, "write")
    /\ \E x \in job[j].left : Convert(j, x) \/ Move(j, x) \/ Copy(j)

Written(j) ==
    /\ JobAt(j, "write") /\ job[j].left = {}
    /\ JobTo(j, IF KindOf[Doing(j)] = "convert" THEN "record" ELSE "remove")
    /\ UNCHANGED <<version, writable, data, writer, stops, writes>>

\* The old field is removed from all rows.
RemoveField(j) ==
    /\ JobAt(j, "remove")
    /\ IF KindOf[Doing(j)] = "move" THEN booked' = {} /\ UNCHANGED length
                                    ELSE length' = FALSE /\ UNCHANGED booked
    /\ JobTo(j, "record")
    /\ UNCHANGED <<version, writable, form, reserved, copied, writer, stops, writes>>

\* Mutant of AfterLast: the permission is given back on errors only.
StaysReadOnly == "off"
AfterLast == "grant"
Record(j) ==
    /\ JobAt(j, "record")
    /\ version' = IF version < Doing(j) THEN Doing(j) ELSE version
    /\ Go(j, IF Len(job[j].plan) = 1 THEN [Off EXCEPT !.at = AfterLast]
                                     ELSE [Off EXCEPT !.at = "list", !.plan = Tail(job[j].plan)])
    /\ UNCHANGED <<writable, data, writer, stops, writes>>

\* Deferred: when the run ends, with or without an error.
Grant(j) ==
    /\ JobAt(j, "grant")
    /\ writable' = TRUE
    /\ Go(j, Off)
    /\ UNCHANGED <<version, data, writer, stops, writes>>

\* Half way through a migration that cannot be repeated.
Unrepeatable(j) ==
    /\ job[j].at \in {"write", "remove", "record"}
    /\ KindOf[Doing(j)] # "convert"

\* An error of the database, or the process is gone.
Stops(j) ==
    /\ ~JobAt(j, "off") /\ stops < MaxStops
    /\ "whole" \in MigrationsAssumed => ~Unrepeatable(j)
    /\ stops' = stops + 1
    /\ \/ JobTo(j, "grant") /\ job[j].at \in {"list", "write", "remove", "record"}
       \/ Go(j, Off) /\ ("granted" \in MigrationsAssumed => ~JobAt(j, "grant"))
    /\ UNCHANGED <<version, writable, data, writer, writes>>

----------------------------------------------------------------------------
\* The API

\* A replica that starts with the initialization of the data store, or initdb.
Initialize ==
    /\ stops < MaxStops /\ stops' = stops + 1
    /\ writable' = TRUE
    /\ UNCHANGED <<version, data, job, writer, writes>>

WriterRead(c) ==
    /\ writer[c].row = "none"
    /\ \E r \in Rows : writer' = [writer EXCEPT ![c] = [row |-> r, current |-> TRUE]]
    /\ UNCHANGED <<version, writable, data, job, stops, writes>>

\* Mutant of Accepted: the row is replaced whatever it is, in the form it was read.
Overwritten(c) == writable
Accepted(c) == writable /\ writer[c].current

\* The handler keeps what it read; without the stamp that would be the old form.
WriterWrite(c) ==
    /\ writer[c].row # "none" /\ writes < MaxWrites
    /\ writes' = writes + 1
    /\ LET r == writer[c].row
       IN  /\ form' = IF Accepted(c) /\ ~writer[c].current THEN [form EXCEPT ![r] = "old"] ELSE form
           /\ job' = IF Accepted(c) THEN [j \in Jobs |-> [job[j] EXCEPT !.current = @ \ {r}]] ELSE job
           /\ writer' = IF Accepted(c) THEN [Stale(r) EXCEPT ![c] = NoRead]
                                       ELSE [writer EXCEPT ![c] = NoRead]
    /\ UNCHANGED <<version, writable, booked, reserved, length, copied, stops>>

\* updateSize and updatePartition of the new API: the row has no old field then.
Update ==
    /\ writable /\ writes < MaxWrites
    /\ writes' = writes + 1
    /\ "untouched" \in MigrationsAssumed => ~length /\ booked = {}
    /\ booked' \in {booked, {}} /\ length' \in {length, FALSE}
    /\ UNCHANGED <<version, writable, form, reserved, copied, job, writer, stops>>

----------------------------------------------------------------------------
JobStep(j) ==
    \/ ToNewest(j) \/ Revoke(j) \/ List(j) \/ Write(j) \/ Written(j)
    \/ RemoveField(j) \/ Record(j) \/ Grant(j)

MigrationsNext ==
    \/ \E j \in Jobs : Start(j) \/ ToTarget(j) \/ JobStep(j) \/ Stops(j)
    \/ \E c \in Writers : WriterRead(c) \/ WriterWrite(c)
    \/ Initialize \/ Update

MigrationsSpec == MigrationsInit /\ [][MigrationsNext]_migrationsVars

\* Somebody starts the command until the database is migrated, and it goes on.
MigrationsFairness == \A j \in Jobs : WF_migrationsVars(JobStep(j)) /\ WF_migrationsVars(Start(j))
MigrationsFairSpec == MigrationsSpec /\ MigrationsFairness

----------------------------------------------------------------------------
\* A version in the migration table tells that all migrations up to it were
\* carried out, once: rows have their new form, no reservation is lost or
\* duplicated, and the network has the length that was configured, whatever
\* failed, stopped or was written meanwhile (Migrate, Between, migrations).
VersionTells ==
    \A v \in Versions : v <= version =>
        CASE KindOf[v] = "convert" -> \A r \in Rows : VersionOf[r] = v => form[r] = "new"
          [] KindOf[v] = "move" -> \A b \in Bookings : reserved[b] = 1
          [] OTHER -> copied = "own"

\* The API may write again in the end, whatever happened to the command (Migrate).
WritableAgain == []<>writable
=============================================================================
