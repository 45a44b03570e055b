SPECIFICATION Spec
CONSTANTS
    Machines = {m1}
    Requests = {r1, r2}
    ByUUID = {r1, r2}
    Frees = {}
    IPs = {a1, a2}
    GivenIPs = {}
    StaticIPs = {}
    ASNs = {n1, n2}
    Networks = 1
    MaxWrites = 0
    MaxInterruptions = 0
    MaxRedeliveries = 0
    Assumed = {"settled", "freeAllocated", "freeOnce", "acked"}
    None = None
SYMMETRY Interchangeable
PROPERTIES
    DanglingOnly
