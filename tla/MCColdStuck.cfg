CONSTANTS
    None = None
    Kinds <- Selections
    MaxOps = 1
    MaxCommands = 0
    MaxMishaps = 1
SPECIFICATION FairSpec
PROPERTIES OperationEnds
CHECK_DEADLOCK FALSE
