CONSTANTS
    d1 = d1
    d2 = d2
    d3 = d3
    Docs <- TwoDocs
    Missing = Missing
    Bad = Bad
    Procs <- AgentAndLauncher
    MaxCommands = 1
    MaxMishaps = 0
SPECIFICATION Spec
PROPERTIES SaveAnswersHonestly
CHECK_DEADLOCK FALSE
