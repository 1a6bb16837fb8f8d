CONSTANTS
    MaxRetryCount = 1
    MaxJobs = 1
    Titles = {news, padded}
    NoTitle = NoTitle
    Requests = {r1}
    Ticks = {t1}
    Kinds = {"post"}
    BatchSize = 2
    MaxSeeds = 0
    SeedStatus = {"pending", "failed"}
    SupportedTitles = {news, padded}
    RoutedTitles = {news}
    SkipGuardEnabled = TRUE
    MaxFaults = 0
    MaxCrashes = 0
SPECIFICATION Spec
INVARIANTS
    CreatedJobsAreRouted
