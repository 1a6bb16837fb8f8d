CONSTANTS
    MaxRetryCount = 1
    MaxJobs = 1
    Titles = {news}
    NoTitle = NoTitle
    Requests = {r1}
    Ticks = {t1, t2}
    Kinds = {}
    BatchSize = 2
    MaxSeeds = 1
    SeedStatus = {"pending"}
    SupportedTitles = {news}
    RoutedTitles = {news}
    SkipGuardEnabled = FALSE
    MaxFaults = 0
    MaxCrashes = 0
SPECIFICATION Spec
INVARIANTS
    AttemptsBounded
