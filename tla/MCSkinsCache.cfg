SPECIFICATION AccountSpec
CONSTANTS
    Items = {}
    BulkItems = {s1}
    Names = {n1}
    Requests = {r1, r2}
    Blank = Blank
    NoRow = NoRow
    NoEntry = NoEntry
    Purchases = TRUE
    Faults = TRUE
SYMMETRY Symmetry
INVARIANTS
    SkinsAreOwned
    ForceIsCurrent
