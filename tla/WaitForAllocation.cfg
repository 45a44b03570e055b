SPECIFICATION FairSpec
CONSTANTS
    Replicas = {r1, r2}
    Waits = {w1, w2}
    Slots = {1}
    MaxFaults = 1
    Assumed = {"oneStream", "settled"}
    None = None
INVARIANTS WaitingTells
PROPERTIES AllocatedIsTold HandlersComeBack
