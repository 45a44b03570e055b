SPECIFICATION MigrationsSpec
CONSTANTS
    t1 = t1
    t2 = t2
    Registered <- RegisteredMC
    KindOf <- KindOfMC
    Rewriting <- RewritingMC
    Rows = {t1, t2}
    VersionOf <- VersionOfMC
    Bookings = {b1, b2}
    Jobs = {j1}
    Writers = {}
    MaxStops = 1
    MaxWrites = 0
    MigrationsAssumed = {"oneJob", "untouched", "granted"}
INVARIANTS VersionTells
CHECK_DEADLOCK FALSE
