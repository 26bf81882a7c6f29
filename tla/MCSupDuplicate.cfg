SPECIFICATION Spec
CONSTANTS
    Windows = FALSE
    ReadinessKinds = {"token"}
    Mishaps = {"crash"}
    MaxLaunches = 2
    MaxMishaps = 1
INVARIANT
    NoDuplicateHarness
CHECK_DEADLOCK FALSE
