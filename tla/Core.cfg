CONSTANTS
    MaxRetryCount = 1
    MaxJobs = 2
    Titles = {news, plain}
    NoTitle = NoTitle
    Requests = {r1, r2}
    Ticks = {t1, t2}
    Kinds = {"post", "delete", "edit", "retry"}
    BatchSize = 2
    MaxSeeds = 1
    SeedStatus = {"pending", "failed"}
    SupportedTitles = {news}
    RoutedTitles = {news}
    SkipGuardEnabled = TRUE
    MaxFaults = 0
    MaxCrashes = 0
SYMMETRY Symmetry
SPECIFICATION Spec
INVARIANTS
    TypeOK
    AttemptsBounded
    RetryLogExact
PROPERTIES
    OnlyPatchRetitles
