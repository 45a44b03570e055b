SPECIFICATION Spec
CONSTANTS
    t1 = t1
    t2 = t2
    Lockers = {c1, c2, c3}
    NoLocker = NoLocker
    MutexAssumed = {"prompt"}
    Replicas = {r1, r2}
    Clients = {c1, c2, c3}
    RangeMin = 1
    RangeMax = 2
    Requested = {2, 3}
    Attempts = 2
    MaxCrashes = 1
    None = None
    PoolAssumed = {"oneInit"}
    Registered <- RegisteredMC
    KindOf <- KindOfMC
    Rewriting <- RewritingMC
    Rows = {t1, t2}
    VersionOf <- VersionOfMC
    Bookings = {b1, b2}
    Jobs = {j1}
    Writers = {w1}
    MaxStops = 2
    MaxWrites = 2
    MigrationsAssumed = {"oneJob", "whole", "untouched", "granted"}
    Handlers = {h1, h2}
    MaxHandled = 2
    IPMISuperUser = {h1}
    LifecycleAssumed = {"timely", "asleep", "wanted", "freeOnce"}
    SwitchPorts = {p1, p2, p3}
    Occupied = {p1, p2}
    Operators = {o1, o2}
    MaxToggles = 3
    PortsAssumed = {"patient"}
    Unset = Unset
    MaxPort = 2
INVARIANTS
    MutexSafe PoolSafe MigrationsValid NamesTranslated
PROPERTIES
    OnlyOwnRowReleased NotLockedUp PoolImplementsLease WritableAgain
    AllocatedSpared LockKept  LEDConverges TogglesTakeEffect
CHECK_DEADLOCK FALSE
