SPECIFICATION FairSpec
CONSTANTS
    Machines = {m1, m2}
    Requests = {r1, r2}
    ByUUID = {r2}
    Frees = {f1}
    IPs = {a1, a2}
    GivenIPs = {}
    StaticIPs = {}
    ASNs = {n1}
    Networks = 2
    MaxWrites = 0
    MaxInterruptions = 0
    MaxRedeliveries = 0
    Assumed = {"settled", "freeAllocated", "freeOnce", "acked", "apart"}
    None = None
PROPERTIES
    NothingLeaks
