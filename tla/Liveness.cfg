CONSTANTS
    MaxRetryCount = 1
    MaxJobs = 3
    Titles = {news}
    NoTitle = NoTitle
    Requests = {r1}
    Ticks = {t1}
    Kinds = {"delete", "retry", "read"}
    BatchSize = 2
    MaxSeeds = 3
    SeedStatus = {"pending", "failed"}
    SupportedTitles = {news}
    RoutedTitles = {news}
    SkipGuardEnabled = TRUE
    MaxFaults = 0
    MaxCrashes = 0
SPECIFICATION FairSpec
PROPERTIES
    PendingIsServed
