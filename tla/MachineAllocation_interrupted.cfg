SPECIFICATION Spec
CONSTANTS
    Machines = {m1, m2}
    Requests = {r1, r2}
    ByUUID = {}
    Frees = {f1}
    IPs = {a1, s1}
    GivenIPs = {s1}
    StaticIPs = {s1}
    ASNs = {n1, n2}
    Networks = 1
    MaxWrites = 1
    MaxInterruptions = 1
    MaxRedeliveries = 1
    Assumed = {"settled", "freeAllocated", "freeOnce", "acked"}
    None = None
SYMMETRY Interchangeable
INVARIANTS
    AllocationInv
    ElectedOnce
    HeldOnce
PROPERTIES
    ConnectedIPKept
    ImplementsLease
