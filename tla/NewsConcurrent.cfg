SPECIFICATION FairSpec
CONSTANTS
    j1 = j1
    j2 = j2
    t1 = t1
    t2 = t2
    Jobs = {j1, j2}
    Workers = 2
    Targets = {t1, t2}
    Resolved = {t1}
    Urls <- MCUrls
    Canon <- MCCanon
    Feeds <- MCFeeds
    NoEvent = NoEvent
    NoEntry = NoEntry
    NoTarget = NoTarget
INVARIANTS
    TypeOK
    FetchedIsAccountedFor
    DuplicatesNeedTwoJobs
PROPERTIES
    StartedJobsEnd
    EventsOnlyAdvance
