SPECIFICATION Spec
CONSTANTS
    ReclaimThreshold = 1
    SwallowThreshold = 2
    DeadAfter = 1
    MaxEvents = 2
    MaxTime = 2
    Handlers = {h1}
    None = None
    Assumed = {"serial", "timely", "calm", "unevaluated"}
INVARIANTS ContainerValid HealthyUnflagged DeadIsSilent Recovers
PROPERTIES EventsKept
