SPECIFICATION FairSpec
CONSTANTS
    Windows = FALSE
    ReadinessKinds = {"off", "plain", "token"}
    Mishaps <- OwnersSucceed
    MaxLaunches = 2
    MaxMishaps = 1
INVARIANTS
    DurableStateIsCurrent
PROPERTIES
    StopCompletes
    StartingSettles
    ExitIsObserved
CHECK_DEADLOCK FALSE
