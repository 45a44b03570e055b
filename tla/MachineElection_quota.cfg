SPECIFICATION ElectionSpec
CONSTANTS
    a1 = a1
    a2 = a2
    b1 = b1
    b2 = b2
    rackA = rackA
    rackB = rackB
    Servers = {a1, a2, b1, b2}
    Racks = {rackA, rackB}
    RackOf <- RackOfMC
    Tenants = {p1, p2, p3}
    Reservations = {i1, i2}
    StartReservations <- StartReservationsMC
    MaxAmount = 2
    Quota = 1
    PlacementTags = {}
    Requests = {c1}
    MaxRequests = 3
    MaxChanges = 1
    ElectionAssumed = {"modest", "undisturbed", "oneRequest"}
    Nobody = Nobody
SYMMETRY Tenancy
INVARIANTS MachinesWithinQuota

CHECK_DEADLOCK FALSE
