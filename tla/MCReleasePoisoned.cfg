CONSTANTS
    s1 = s1
    s2 = s2
    s3 = s3
    Slots <- ThreeSlots
    None = None
    MaxContent = 2
    MaxSlots = 3
    MaxPreviews = 0
    MaxCommands = 8
    MaxMishaps = 1
    Mishaps = {"crash"}
SPECIFICATION Spec
SYMMETRY Symmetry
CHECK_DEADLOCK FALSE
INVARIANT PartialCleanupPoisonsNothing
