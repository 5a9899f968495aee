SPECIFICATION Spec
CONSTANTS
    Items = {i1}
    BulkItems = {b1, b2}
    Names = {n1}
    Requests = {r1}
    Blank = Blank
    NoRow = NoRow
    Faults = TRUE
SYMMETRY Symmetry
INVARIANTS
    TypeOK
    NothingInvented
PROPERTIES
    KnownStaysKnown
    BulkFillsGaps
