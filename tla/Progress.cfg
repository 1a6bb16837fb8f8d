CONSTANTS
    MaxRetryCount = 1
    MaxJobs = 2
    Titles = {news}
    NoTitle = NoTitle
    Requests = {r1}
    Ticks = {t1, t2}
    Kinds = {"post", "read", "delete", "edit", "retry"}
    BatchSize = 1
    MaxSeeds = 2
    SeedStatus = {"pending", "failed"}
    SupportedTitles = {news}
    RoutedTitles = {news}
    SkipGuardEnabled = TRUE
    MaxFaults = 2
    MaxCrashes = 1
SPECIFICATION FairSpec
PROPERTIES
    StrandingHasCause
    TicksEnd
    RequestsAreAnswered
