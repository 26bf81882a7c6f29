CONSTANTS
    None = None
    Kinds <- Imports
    MaxOps = 1
    MaxCommands = 0
    MaxMishaps = 1
SPECIFICATION Spec
PROPERTIES RecoveryFollowsChildren
CHECK_DEADLOCK FALSE
