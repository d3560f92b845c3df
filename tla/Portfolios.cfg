SPECIFICATION Spec
CONSTANTS
    a1 = a1
    a2 = a2
    p1 = p1
    p2 = p2
    r1 = r1
    r2 = r2
    r3 = r3
    tech = tech
    Unknown = Unknown
    Assets = {a1, a2}
    Sectors = {tech}
    SectorOf <- MCSectorOf
    Requests = {r1, r2, r3}
    u1 = u1
    Users = {u1}
    Portfolio = {p1, p2}
    Terms <- MCTerms
    Prices = {1}
    Quantities <- MCQuantities
    Quotes <- MCQuotes
    Books <- MCBooks
    MaxTime = 1
    Before = Before
    Absent = Absent
    Null = Null
    Keep = Keep
SYMMETRY Symmetry
INVARIANTS
    TypeOK
    CheckedIsSignalled
    DuplicatesNeedOverlap
    ErrorsAreExplained
    SummaryIsConsistent
