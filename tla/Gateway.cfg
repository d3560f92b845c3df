SPECIFICATION FairSpec
CONSTANTS
    c1 = c1
    c2 = c2
    p1 = p1
    p2 = p2
    Calls = {c1, c2}
    Requests <- MCRequests
    Prompts = {p1, p2}
    Configs <- MCConfigs
    Limit = 1
    LastDay = 2
    NoRequest = NoRequest
    NoDay = NoDay
    NoOutput = NoOutput
INVARIANTS
    TypeOK
    PrivacyBoundary
    OneCloudCallEach
    CallsArePaid
    HitsAreFreeAndFresh
    CacheHoldsFirstCloudAnswers
PROPERTIES
    BudgetIsRespected
    CompletionsEnd
