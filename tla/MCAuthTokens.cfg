SPECIFICATION Spec
CONSTANTS
    Users = {u1, u2}
    Tokens = {t1, t2, t3}
    Browsers = {b1, b2}
    Requests = {r1, r2}
    NoUser = NoUser
    NoToken = NoToken
    NoBrowser = NoBrowser
    Faults = TRUE
SYMMETRY Symmetry
INVARIANTS
    TypeOK
    IdentitiesRegistered
    CookiesAgree
    TokensNotShared
PROPERTY TokensLiveOnce
