CONSTANTS
    MaxRetryCount = 1
    MaxJobs = 1
    Titles = {news}
    NoTitle = NoTitle
    Requests = {r1, r2}
    Ticks = {t1}
    Kinds = {"edit", "retry"}
    BatchSize = 2
    MaxSeeds = 1
    SeedStatus = {"pending"}
    SupportedTitles = {news}
    RoutedTitles = {news}
    SkipGuardEnabled = TRUE
    MaxFaults = 0
    MaxCrashes = 0
SPECIFICATION Spec
PROPERTIES
    OnlySchedulerClaims
