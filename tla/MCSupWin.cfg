SPECIFICATION Spec
CONSTANTS
    Windows = TRUE
    ReadinessKinds = {"off", "plain", "token"}
    Mishaps <- AgentMayDie
    MaxLaunches = 2
    MaxMishaps = 2
INVARIANTS
    LiveProcessIsCovered
    NoDuplicateHarness
    ReaperIsSoleOwner
    QuiescentMeansNoOwner
PROPERTIES
    StoppingIsUndisturbed
\* The Agent idles when no request comes, and the bounds end the rest.
CHECK_DEADLOCK FALSE
