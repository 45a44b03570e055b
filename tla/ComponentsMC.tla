---------------------------- MODULE ComponentsMC ----------------------------
(***************************************************************************)
(* The components that stand alone, checked in one run: what the replicas   *)
(* of metal-api share through the data store, a key of the mutex, a pool of  *)
(* integers and the migrations; and what is done to devices, a machine with *)
(* its BMC, the ports of a switch, and their names when it is replaced.     *)
(* They have no state in common, so a behaviour is about one of them, and   *)
(* the others stay as they are.                                             *)
(***************************************************************************)
EXTENDS SharedMutex, IntegerPool, MigrationsMC, MachineLifecycle, PortStates, PortNames

VARIABLE subject

storeVars == <<mutexVars, poolVars, migrationsVars>>
deviceVars == <<lifecycleVars, portsVars, namesVars>>

\* Where a behaviour is about something else, it starts in one state.
Migrated == \A r \in Rows : form[r] = "new"
NewMachine == machine.owner = 0 /\ machine.credentials /\ box = NewBox
NoNames == first = "sonic" /\ system = first /\ name = <<>>

Init ==
    /\ subject \in {"mutex", "pool", "migrations", "machine", "switch", "names"}
    /\ MutexInit /\ PoolInit /\ PortsInit
    /\ MigrationsInit /\ (subject # "migrations" => Migrated)
    /\ LifecycleInit /\ (subject # "machine" => NewMachine)
    /\ IF subject = "names" THEN NamesInit ELSE NoNames

About(what, step) == subject = what /\ step

Next ==
    /\ \/ About("mutex", MutexNext) /\ UNCHANGED <<poolVars, migrationsVars, deviceVars>>
       \/ About("pool", PoolNext) /\ UNCHANGED <<mutexVars, migrationsVars, deviceVars>>
       \/ About("migrations", MigrationsNext) /\ UNCHANGED <<mutexVars, poolVars, deviceVars>>
       \/ About("machine", LifecycleNext) /\ UNCHANGED <<storeVars, portsVars, namesVars>>
       \/ About("switch", PortsNext) /\ UNCHANGED <<storeVars, lifecycleVars, namesVars>>
       \/ About("names", Replace) /\ UNCHANGED <<storeVars, lifecycleVars, portsVars>>
    /\ UNCHANGED subject

\* The fairness of each of them, where a behaviour is about it.
Fairness ==
    /\ WF_mutexVars(About("mutex", BecomeOverdue)) /\ WF_mutexVars(About("mutex", Expire))
    /\ \A c \in Lockers : WF_mutexVars(About("mutex", Leaves(c)))
    /\ \A j \in Jobs : WF_migrationsVars(About("migrations", JobStep(j)))
    /\ \A j \in Jobs : WF_migrationsVars(About("migrations", Start(j)))
    /\ \A h \in Handlers : WF_lifecycleVars(About("machine", Step(h)))
    /\ WF_lifecycleVars(About("machine", TakeReport)) /\ WF_lifecycleVars(About("machine", ListMachines))
    /\ WF_lifecycleVars(About("machine", WriteReport)) /\ SF_lifecycleVars(About("machine", StoresReport))
    /\ WF_lifecycleVars(About("machine", Deliver))
    /\ WF_portsVars(About("switch", PortsStep))
    /\ \A o \in Operators : WF_portsVars(About("switch", ReadSwitch(o) \/ WriteToggle(o)))

Spec == Init /\ [][Next]_<<storeVars, deviceVars, subject>> /\ Fairness

\* The tables that are migrated are well formed, and their version tells their form.
MigrationsValid == MigrationsTypeOK /\ VersionTells
=============================================================================
