CONSTANTS
    None = None
    desktop = desktop
    console = console
    c1 = c1
    c2 = c2
    c3 = c3
    old = old
    new = new
    Launchers <- TwoLaunchers
    Callers <- ThreeCallers
    Home <- HomeOf
    Builds <- TwoBuilds
    Build <- BuildOf
    MaxAgents = 3
    MaxCalls = 2
    MaxMishaps = 1
SPECIFICATION Spec
INVARIANTS
    OneOwner
    ServerIsAuthorised
PROPERTIES
    StartAnswersHonestly
    StopLeavesNoChild
SYMMETRY ConsoleCallers
CHECK_DEADLOCK FALSE
