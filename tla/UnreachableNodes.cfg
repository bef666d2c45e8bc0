SPECIFICATION Spec
CONSTANTS
    Count = 3
    Statuses = {"pending", "ready", "running", "partial", "failed"}
INVARIANTS
    LoopSettles
PROPERTIES
    LoopEnds
CHECK_DEADLOCK FALSE
