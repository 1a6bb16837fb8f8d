CONSTANTS
    MaxRetryCount = 1
    MaxJobs = 2
    Titles = {news, plain}
    NoTitle = NoTitle
    Requests = {r1, r2}
    Ticks = {t1}
    Kinds = {"post", "read", "delete", "edit", "retry"}
    BatchSize = 2
    MaxSeeds = 2
    SeedStatus = {"pending", "failed", "completed"}
    SupportedTitles = {news}
    RoutedTitles = {news}
    SkipGuardEnabled = TRUE
    MaxFaults = 0
    MaxCrashes = 0
CONSTRAINT EditsAreAlone
SPECIFICATION Spec
INVARIANTS
    ProcessingIsHeld
PROPERTIES
    ImplementsLifecycle
