CONSTANTS
    None = None
    r1 = r1
    r2 = r2
    Reconcilers <- TwoReconcilers
    Mishaps = {"race"}
    MaxCommands = 1
    MaxMishaps = 1
SPECIFICATION Spec
INVARIANTS
    LiveIsFound
SYMMETRY Symmetric
CHECK_DEADLOCK FALSE
