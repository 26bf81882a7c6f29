SPECIFICATION MCFairSpec
CONSTANTS
    r1 = r1
    r2 = r2
    web = web
    cli = cli
    N = 1
    PackageFiles = {1}
    Versions = {1, 2}
    Changes = {"replace"}
    Releases <- TwoReleases
    Profiles = {web}
    Legacy = TRUE
    StaleAllowed = TRUE
    MaxRestores = 1
    Mishaps = {"crash"}
    MaxMishaps = 1
PROPERTIES
    RestoresSettle
CHECK_DEADLOCK FALSE
