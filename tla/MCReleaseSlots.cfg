CONSTANTS
    s1 = s1
    s2 = s2
    s3 = s3
    Slots <- ThreeSlots
    None = None
    MaxContent = 2
    MaxSlots = 3
    MaxPreviews = 1
    MaxCommands = 6
    MaxMishaps = 1
    Mishaps = {"crash", "edit", "lose", "fail"}
SPECIFICATION Spec
SYMMETRY Symmetry
INVARIANTS
    SelectionIsWhole
    FallbackBecameReady
PROPERTIES
    OnlyConfirmedContentIsDeleted
    ResultIsHonest
CHECK_DEADLOCK FALSE
