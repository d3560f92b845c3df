SPECIFICATION Spec
CONSTANTS
    j1 = j1
    j2 = j2
    Jobs = {j1, j2}
    Workers = 2
    Asked <- MCAsked
    Gateways <- MCGateways
    Limit = 1
    LastDay = 2
    NoRequest = NoRequest
    NoDay = NoDay
    NoOutput = NoOutput
INVARIANTS
    TypeOK
    JobAgreesWithAnalysis
    AskedIsOnRecord
    PendingIsExplained
