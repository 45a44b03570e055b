SPECIFICATION Spec
CONSTANTS
    ReclaimThreshold = 1
    SwallowThreshold = 2
    DeadAfter = 1
    MaxEvents = 2
    MaxTime = 1
    Handlers = {h1, h2}
    None = None
    Assumed = {"timely", "calm", "unevaluated"}
PROPERTIES EventsKept
