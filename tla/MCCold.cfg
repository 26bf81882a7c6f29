CONSTANTS
    None = None
    Kinds <- AllKinds
    MaxOps = 2
    MaxCommands = 1
    MaxMishaps = 3
SPECIFICATION Spec
INVARIANTS
    TupleIsWhole
    SelectionExists
    WorkIsOwned
PROPERTIES
    CancelIsHonoured
    CleanupFollowsChildren
    EditsSurvive
CHECK_DEADLOCK FALSE
