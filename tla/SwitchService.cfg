SPECIFICATION Spec
CONSTANTS
    s1 = s1
    s2 = s2
    s3 = s3
    p1 = p1
    p2 = p2
    Switches = {s1, s2, s3}
    Machines = {m1}
    Ports = {p1, p2}
    Cablings <- CablingsMC
    NicSets <- NicSetsMC
    Calls = {c1, c2}
    MaxCalls = 3
    Attempts = 2
    MaxFaults = 1
    Assumed = {"oneCall", "maintenance", "plugged", "retired"}
    None = None
SYMMETRY Interchangeable
INVARIANTS VRFAsRecorded ConnectionsSound
PROPERTIES ConnectionsKept
CHECK_DEADLOCK FALSE
