SPECIFICATION Spec
CONSTANTS
    p1 = p1
    p2 = p2
    Puuids <- MCPuuids
    Matches <- MCMatches
    WithSession <- MCWithSession
    Lists <- MCLists
    Requests = {r1, r2}
    NameTTL = 2
    RankTTL = 1
    Lag = 1
    MaxTime = 3
    NoEntry = NoEntry
    Faults = TRUE
SYMMETRY Symmetry
INVARIANTS
    TypeOK
    ShownToOwner
    PagesNamed
PROPERTIES
    ShownInTime
    CachesFresh
