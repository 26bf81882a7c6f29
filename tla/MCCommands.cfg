CONSTANTS
    None = None
    r1 = r1
    r2 = r2
    Reconcilers <- OneReconciler
    Mishaps = {"crash", "io", "kill"}
    MaxCommands = 2
    MaxMishaps = 2
SPECIFICATION FairSpec
INVARIANTS
    LiveIsFound
PROPERTIES
    FilesFollowProcesses
    AbandonedEnds
CHECK_DEADLOCK FALSE
