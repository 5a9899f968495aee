SPECIFICATION AccountSpec
CONSTANTS
    Items = {}
    BulkItems = {s1, s2}
    Names = {n1}
    Requests = {r1}
    Blank = Blank
    NoRow = NoRow
    NoEntry = NoEntry
    Purchases = FALSE
    Faults = TRUE
INVARIANT CacheStaysCurrent
