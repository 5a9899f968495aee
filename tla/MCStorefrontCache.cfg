SPECIFICATION Spec
CONSTANTS
    Period <- MCPeriod
    Requests = {r1, r2}
    Lag = 2
    MaxTime = 8
    NoEntry = NoEntry
    Faults = TRUE
SYMMETRY Symmetry
INVARIANTS
    TypeOK
    StaleForLagOnly
PROPERTY StorefrontFresh
