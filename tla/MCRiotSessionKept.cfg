SPECIFICATION Spec
CONSTANTS
    p1 = p1
    p2 = p2
    t1 = t1
    t2 = t2
    t3 = t3
    eu = eu
    Users = {u1}
    Players = {p1}
    Tokens = {t1, t2}
    OwnerOf <- MCOwnerOfOne
    RegionOf <- MCRegionOfOne
    Regions = {eu}
    Requests = {r1, r2}
    Blank = Blank
    NoRegion = NoRegion
    NoUser = NoUser
    NoToken = NoToken
    NoSession = NoSession
    NoAccount = NoAccount
    Faults = FALSE
PROPERTY SessionsKept
