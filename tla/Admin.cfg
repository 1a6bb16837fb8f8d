CONSTANTS
    digest = digest
    other = other
    Titles = {digest, other}
    NoTitle = NoTitle
    BadTitle = BadTitle
    SupportedTitles = {digest}
    MaxRetryCount = 1
    MaxJobs = 3
    SearchTexts <- MCSearchTexts
    StatusFilters = {"failed"}
    Seeds <- MCSeeds
    Budgets <- MCBudgets
SPECIFICATION Spec
INVARIANTS
    TypeOK
    TitlesAreTheirs
    ReportedGoneIsGone
    LoggedAsAnswered
PROPERTIES
    ListSettles
    LoadingEnds
