CONSTANTS
    d1 = d1
    d2 = d2
    d3 = d3
    Docs <- ThreeDocs
    Missing = Missing
    Bad = Bad
    Procs <- AgentOnly
    MaxCommands = 4
    MaxMishaps = 3
SPECIFICATION Spec
INVARIANTS
    PairIsWhole
PROPERTIES
    SaveAnswersHonestly
    EditsSurvive
    DecisionStands
    HomesStayProtected
CHECK_DEADLOCK FALSE
