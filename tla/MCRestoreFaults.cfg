SPECIFICATION MCSpec
CONSTANTS
    r1 = r1
    r2 = r2
    web = web
    cli = cli
    N = 2
    PackageFiles = {1}
    Versions = {1, 2, 3}
    Changes = {"replace", "remove", "omit"}
    Releases <- TwoReleases
    Profiles = {web}
    Legacy = TRUE
    StaleAllowed = FALSE
    MaxRestores = 2
    Mishaps = {"crash", "io", "rollback", "edit"}
    MaxMishaps = 2
INVARIANTS
    OriginalsSurvive
    ChangesAreJournaled
PROPERTIES
    DecisionIsFinal
CHECK_DEADLOCK FALSE
