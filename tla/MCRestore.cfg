SPECIFICATION MCFairSpec
CONSTANTS
    r1 = r1
    r2 = r2
    web = web
    cli = cli
    N = 2
    PackageFiles = {1}
    Versions = {1, 2}
    Changes = {"replace", "omit"}
    Releases <- TwoReleases
    Profiles <- TwoProfiles
    Legacy = TRUE
    StaleAllowed = FALSE
    MaxRestores = 1
    Mishaps = {"crash", "io"}
    MaxMishaps = 2
INVARIANTS
    AllOrNothing
PROPERTIES
    ImplementsAtomicRestore
CHECK_DEADLOCK FALSE
