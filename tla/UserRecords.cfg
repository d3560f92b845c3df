SPECIFICATION Spec
CONSTANTS
    r1 = r1
    r2 = r2
    r3 = r3
    u1 = u1
    u2 = u2
    a1 = a1
    a2 = a2
    w1 = w1
    w2 = w2
    n1 = n1
    l1 = l1
    l2 = l2
    t1 = t1
    t2 = t2
    i1 = i1
    i2 = i2
    e1 = e1
    s1 = s1
    k1 = k1
    k2 = k2
    memo = memo
    text = text
    other = other
    BUY = BUY
    SELL = SELL
    news = news
    Requests = {r1, r2, r3}
    MaxTime = 2
    Absent = Absent
    Null = Null
    Keep = Keep
    Pages = {1, 2}
    Sizes = {1}
    Users = {u1, u2}
    Assets = {a1, a2}
    Texts = {text, other}
    DayLength = 2
    Notes = {n1}
    Memos = {memo}
    Blank = Blank
    Required = {k1, k2}
    Logs = {l1, l2}
    Patches <- MCPatches
    Kinds = {BUY, SELL}
    LogBooks <- MCLogBooks
    Theses = {t1, t2}
    ThesisBooks <- MCThesisBooks
    Rows = {i1, i2}
    Causes <- MCCauses
    Topics <- MCTopics
    Expiry <- MCExpiry
    Boxes <- MCBoxes
    Emails = {e1}
    Symbols = {s1}
    Passwords = {k1, k2}
    Lists = {w1, w2}
    Priorities = {1, 2}
    SignalTypes = {"RISK_ALERT", "WATCH"}
    Stocks <- MCStocks
    ItemLimit = 1
    Before = Before
INVARIANTS
    TypeOK
    TotalsCoverPages
    TrendsEndWithSummary
PROPERTIES
    DecidedFollowsTheNote
    StampsAreKept
    OtherColumnsSurvive
SYMMETRY MCSymmetry
