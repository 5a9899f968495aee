SPECIFICATION FairSpec
CONSTANTS
    p1 = p1
    p2 = p2
    m1 = m1
    m2 = m2
    Matches = {m1, m2}
    Players = {p1, p2}
    Roster <- MCRoster
    Requests = {r1, r2}
    NoMatch = NoMatch
    NoPlayer = NoPlayer
    NoRequest = NoRequest
    Absent = Absent
    Faults = TRUE
INVARIANTS
    TypeOK
    PagesComplete
    SyncReturnsHistory
    CopiesBounded
    LocksHeldByWriters
PROPERTIES
    ArchiveImplemented
    RequestsAnswered
