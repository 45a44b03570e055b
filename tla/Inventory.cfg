SPECIFICATION Spec
CONSTANTS
    a1 = a1
    a2 = a2
    b1 = b1
    b2 = b2
    rackA = rackA
    rackB = rackB
    Servers = {a1, a2, b1, b2}
    Racks = {rackA, rackB}
    RackOf <- RackOfMC
    Tenants = {p1, p2, p3}
    Reservations = {i1, i2}
    StartReservations <- StartReservationsMC
    MaxAmount = 2
    Quota = 9
    PlacementTags = {g1}
    Requests = {q1, q2}
    MaxRequests = 3
    MaxChanges = 1
    ElectionAssumed = {"modest", "undisturbed", "oneRequest"}
    Nobody = Nobody
    s1 = s1
    s2 = s2
    l1 = l1
    l2 = l2
    SizeIDs = {s1, s2}
    SizeSpecs <- SizeSpecsMC
    LayoutIDs = {l1, l2}
    LayoutSpecs <- LayoutSpecsMC
    Systems = {os1}
    Versions = {1, 2, 3}
    Places = {fra}
    Projects = {pr1}
    BookingIDs = {bk1}
    Hosts = {h1}
    Hardware <- HardwareMC
    Callers = {c1}
    StartSizes <- StartSizesMC
    StartLayouts <- StartLayoutsMC
    StartImages <- StartImagesMC
    StartHostSize = s1
    MaxEdits = 4
    CatalogueAssumed = {"unused", "current", "serial"}
    None = None
SYMMETRY Tenancy
INVARIANTS
    InventoryValid FreeIsElectable LookupsDetermined
PROPERTIES
    ReservationsBacked SpreadKept CleanupKeepsNewest
CHECK_DEADLOCK FALSE
