SPECIFICATION Spec
CONSTANTS
    Windows = TRUE
    ReadinessKinds = {"plain"}
    Mishaps = {"terminate"}
    MaxLaunches = 1
    MaxMishaps = 1
INVARIANT
    StopPendingHasReaper
CHECK_DEADLOCK FALSE
