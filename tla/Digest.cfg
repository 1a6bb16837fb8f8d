CONSTANTS
    news = news
    padded = padded
    other = other
    Blank = Blank
    Texts <- MCTexts
    Trimmed <- MCTrimmed
    DefaultJobTitle = news
    DefaultMaxHeadlines = 2
    Environments <- MCEnvironments
    Jobs = {j1, j2}
    NoJob = NoJob
    Feeds <- MCFeeds
    Groupings <- MCGroupings
    MaxAttempts = 3
    MaxRestarts = 2
CHECK_DEADLOCK FALSE
SPECIFICATION Spec
INVARIANTS
    TypeOK
    CompletedIsDelivered
    DuplicatesAreExplained
    NoCallWithoutSecrets
PROPERTIES
    ImplementsContract
