SPECIFICATION Spec
CONSTANTS
    p1 = p1
    p2 = p2
    m1 = m1
    m2 = m2
    Matches = {m1}
    Players = {p1}
    Roster <- MCRosterOne
    Requests = {r1, r2}
    NoMatch = NoMatch
    NoPlayer = NoPlayer
    NoRequest = NoRequest
    Absent = Absent
    Faults = FALSE
INVARIANT KillsStoredOnce
