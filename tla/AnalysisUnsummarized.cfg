SPECIFICATION Spec
CONSTANTS
    j1 = j1
    j2 = j2
    a1 = a1
    a2 = a2
    u1 = u1
    Jobs = {j1, j2}
    Workers = 1
    Users = {u1}
    Assets = {a1}
    Urls = {"x"}
    Feed <- MCFeed
    NoUser = NoUser
    NoAsset = NoAsset
    NoItem = NoItem
INVARIANTS
    ProcessedIsSummarized
