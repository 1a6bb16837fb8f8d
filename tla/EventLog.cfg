CONSTANTS
    MaxRetryCount = 1
    MaxJobs = 2
    Titles = {news}
    NoTitle = NoTitle
    Requests = {r1, r2}
    Ticks = {t1}
    Kinds = {"delete", "edit", "retry"}
    BatchSize = 2
    MaxSeeds = 2
    SeedStatus = {"pending"}
    SupportedTitles = {news}
    RoutedTitles = {news}
    SkipGuardEnabled = TRUE
    MaxFaults = 1
    MaxCrashes = 1
SYMMETRY Symmetry
CONSTRAINTS
    EditsAreAlone
    TitlesStay
    OneLineSwallowed
SPECIFICATION LogSpec
INVARIANTS
    LogTypeOK
    LogReplays
    LogNeverInvents
    LostEventsAreExplained
    BatchAddsUp
