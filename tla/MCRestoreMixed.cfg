SPECIFICATION MCSpec
CONSTANTS
    r1 = r1
    r2 = r2
    web = web
    cli = cli
    N = 2
    PackageFiles = {1}
    Versions = {1, 2}
    Changes = {"replace"}
    Releases <- TwoReleases
    Profiles = {web}
    Legacy = FALSE
    StaleAllowed = FALSE
    MaxRestores = 1
    Mishaps = {"io", "edit"}
    MaxMishaps = 2
INVARIANTS
    AllOrNothing
CHECK_DEADLOCK FALSE
