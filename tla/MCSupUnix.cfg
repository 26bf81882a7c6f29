SPECIFICATION Spec
CONSTANTS
    Windows = FALSE
    ReadinessKinds = {"off", "plain", "token"}
    Mishaps <- AgentSurvives
    MaxLaunches = 2
    MaxMishaps = 2
INVARIANTS
    QuiescentMeansNoOwner
PROPERTIES
    ReservationOutlivesRun
CHECK_DEADLOCK FALSE
