SPECIFICATION Spec
CONSTANTS
    NetworkIDs = {n1, n2, n3}
    Prefixes <- PrefixesMC
    VRFs = {v1}
    IPs <- IPsMC
    ParentOf <- ParentOfMC
    FamilyOf <- FamilyOfMC
    PrefixOf <- PrefixOfMC
    Callers = {c1, c2}
    MaxInterruptions = 1
    Assumed = {"oneAdmin", "serial", "leftAlone", "unshared", "settled", "parentsKept"}
    None = None
SYMMETRY Interchangeable
INVARIANTS NetworkInv NothingShared IPAMAgrees ReferencesKept
CHECK_DEADLOCK FALSE
