CONSTANTS
    MaxRetryCount = 1
    MaxJobs = 2
    Titles = {news}
    NoTitle = NoTitle
    Requests = {r1, r2}
    Ticks = {t1}
    Kinds = {"post", "delete", "edit", "retry"}
    BatchSize = 2
    MaxSeeds = 1
    SeedStatus = {"pending", "failed", "processing"}
    SupportedTitles = {news}
    RoutedTitles = {news}
    SkipGuardEnabled = TRUE
    MaxFaults = 1
    MaxCrashes = 1
SYMMETRY Symmetry
SPECIFICATION Spec
INVARIANTS
    AttemptsBounded
    RetryLogDurable
    RetryLogExact
PROPERTIES
    DeletedStaysDeleted
    StrandingHasCause
