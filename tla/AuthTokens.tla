---------------------------- MODULE AuthTokens ----------------------------
(***************************************************************************)
(* Registration, login, token refresh and logout: the users table, the     *)
(* refresh tokens in Redis and the two cookies of each browser.  Every     *)
(* HTTP request is a goroutine of its own; its steps are the single calls  *)
(* to Postgres and Redis, which interleave with those of other requests.   *)
(*                                                                         *)
(* A user is identified with its login.  An access token is the user it    *)
(* names; its expiry and that of its cookie are one event.                 *)
(***************************************************************************)
EXTENDS FiniteSets

CONSTANTS Users,     \* logins
          Tokens,    \* refresh token UUIDs
          Browsers,  \* cookie jars
          Requests,  \* slots for concurrent HTTP requests
          NoUser, NoToken, NoBrowser,
          Faults     \* whether calls to Redis and Postgres may fail

ASSUME NoUserAssumption == NoUser \notin Users
ASSUME NoTokenAssumption == NoToken \notin Tokens
ASSUME FaultsAssumption == Faults \in BOOLEAN

VARIABLES users,    \* Postgres: the registered users
          refresh,  \* Redis: refresh:<uuid> -> user, NoUser when the key is absent
          issued,   \* every uuid that was ever stored
          jar,      \* the cookies of each browser
          req       \* the requests being served

vars == <<users, refresh, issued, jar, req>>

Ops == {"register", "login", "refresh", "logout"}
Steps == {"create", "find", "get", "delete", "save", "respond", "clear"}

Cookies == [access : Users \cup {NoUser}, refresh : Tokens \cup {NoToken}]
NoCookies == [access |-> NoUser, refresh |-> NoToken]

Request == [step : Steps \cup {"idle"}, op : Ops \cup {"none"},
            browser : Browsers \cup {NoBrowser},
            user : Users \cup {NoUser},
            old : Tokens \cup {NoToken},    \* refresh cookie the request carries
            new : Tokens \cup {NoToken}]    \* refresh token it has stored
Idle == [step |-> "idle", op |-> "none", browser |-> NoBrowser,
         user |-> NoUser, old |-> NoToken, new |-> NoToken]

TypeOK == /\ users \subseteq Users
          /\ refresh \in [Tokens -> Users \cup {NoUser}]
          /\ issued \subseteq Tokens
          /\ jar \in [Browsers -> Cookies]
          /\ req \in [Requests -> Request]

Init == /\ users = {}
        /\ refresh = [t \in Tokens |-> NoUser]
        /\ issued = {}
        /\ jar = [b \in Browsers |-> NoCookies]
        /\ req = [r \in Requests |-> Idle]

---------------------------------------------------------------------------
(* The life of a request: it starts with the cookies its browser sends.    *)

Begin(r, op, step, b, u) ==
    /\ req[r] = Idle
    /\ req' = [req EXCEPT ![r] = [step |-> step, op |-> op, browser |-> b, user |-> u,
                                  old |-> jar[b].refresh, new |-> NoToken]]
    /\ UNCHANGED <<users, refresh, issued, jar>>

At(r, step) == req[r].step = step
GoTo(r, step) == req' = [req EXCEPT ![r].step = step]
Finish(r) == req' = [req EXCEPT ![r] = Idle]

BeginRegister(r, b, u) == Begin(r, "register", "create", b, u)
BeginLogin(r, b, u) == Begin(r, "login", "find", b, u)

\* Without the cookie the handler answers 401 and touches nothing.
BeginRefresh(r, b) == /\ jar[b].refresh # NoToken
                      /\ Begin(r, "refresh", "get", b, NoUser)

\* Behind middleware.Auth: the access cookie must be there and valid.
BeginLogout(r, b) ==
    /\ jar[b].access # NoUser
    /\ Begin(r, "logout", IF jar[b].refresh = NoToken THEN "clear" ELSE "delete", b, NoUser)

---------------------------------------------------------------------------
(* Postgres.                                                               *)

\* INSERT INTO users; a taken login is refused, and a call that reports an
\* error may have committed all the same.
CreateUser(r) ==
    LET u == req[r].user IN
    /\ At(r, "create")
    /\ \/ u \notin users /\ users' = users \cup {u} /\ GoTo(r, "save")
       \/ u \in users /\ Finish(r) /\ UNCHANGED users
       \/ Faults /\ users' \in {users, users \cup {u}} /\ Finish(r)
    /\ UNCHANGED <<refresh, issued, jar>>

GetUserByLoginUnchecked(r) == /\ At(r, "find") /\ GoTo(r, "save")
                              /\ UNCHANGED <<users, refresh, issued, jar>>
\* SELECT by login, then the password check.
GetUserByLogin(r) ==
    /\ At(r, "find")
    /\ \/ req[r].user \in users /\ GoTo(r, "save")
       \/ Finish(r)             \* unknown login, wrong password, or an error
    /\ UNCHANGED <<users, refresh, issued, jar>>

---------------------------------------------------------------------------
(* The refresh tokens in Redis.                                            *)

GetRefreshToken(r) ==
    /\ At(r, "get")
    /\ LET u == refresh[req[r].old] IN
       \/ u # NoUser /\ req' = [req EXCEPT ![r].step = "delete", ![r].user = u]
       \/ u = NoUser /\ Finish(r)
       \/ Faults /\ Finish(r)
    /\ UNCHANGED <<users, refresh, issued, jar>>

Without(store, t) == [store EXCEPT ![t] = NoUser]

\* Logout and Refresh both drop the error of DEL and go on.
DeleteRefreshToken(r) ==
    /\ At(r, "delete")
    /\ \/ refresh' = Without(refresh, req[r].old)
       \/ Faults /\ UNCHANGED refresh
    /\ GoTo(r, IF req[r].op = "refresh" THEN "save" ELSE "clear")
    /\ UNCHANGED <<users, issued, jar>>

FreshTokensAny == Tokens
FreshTokensNotLive == {t \in Tokens : refresh[t] = NoUser}
FreshTokens == Tokens \ issued

\* A uuid is generated and stored for the request's user.  A call that reports
\* an error may have stored the token, which then reaches no browser.
SaveRefreshToken(r) ==
    /\ At(r, "save")
    /\ \/ \E t \in FreshTokens :
              /\ refresh' = [refresh EXCEPT ![t] = req[r].user]
              /\ issued' = issued \cup {t}
              /\ \/ req' = [req EXCEPT ![r].step = "respond", ![r].new = t]
                 \/ Faults /\ Finish(r)
       \/ Faults /\ Finish(r) /\ UNCHANGED <<refresh, issued>>
    /\ UNCHANGED <<users, jar>>

---------------------------------------------------------------------------
(* The answer: both cookies travel in one response, which may be lost.     *)

SetAuthCookiesSwapped(r) == [access |-> req[r].new, refresh |-> req[r].user]
SetAuthCookiesPartly(r) ==   \* a refresh leaves the access cookie as it is
    IF req[r].op = "refresh" THEN [jar[req[r].browser] EXCEPT !.refresh = req[r].new]
                             ELSE [access |-> req[r].user, refresh |-> req[r].new]
SetAuthCookies(r) == [access |-> req[r].user, refresh |-> req[r].new]

Deliver(r, cookies) ==
    /\ jar' = [jar EXCEPT ![req[r].browser] = cookies]
    /\ Finish(r)

Respond(r) == /\ At(r, "respond")
              /\ Deliver(r, SetAuthCookies(r)) \/ (Faults /\ Finish(r) /\ UNCHANGED jar)
              /\ UNCHANGED <<users, refresh, issued>>

ClearAuthCookies(r) == /\ At(r, "clear")
                       /\ Deliver(r, NoCookies) \/ (Faults /\ Finish(r) /\ UNCHANGED jar)
                       /\ UNCHANGED <<users, refresh, issued>>

---------------------------------------------------------------------------
(* Time: the token's key, the access token and the refresh cookie expire.  *)

ExpireToken(t) == /\ refresh[t] # NoUser
                  /\ refresh' = Without(refresh, t)
                  /\ UNCHANGED <<users, issued, jar, req>>

ExpireAccess(b) == /\ jar[b].access # NoUser
                   /\ jar' = [jar EXCEPT ![b].access = NoUser]
                   /\ UNCHANGED <<users, refresh, issued, req>>

ExpireRefreshCookie(b) == /\ jar[b].refresh # NoToken
                          /\ jar' = [jar EXCEPT ![b].refresh = NoToken]
                          /\ UNCHANGED <<users, refresh, issued, req>>

\* The process stops (a crash, or Shutdown giving up on open requests after ten
\* seconds) and is started again: what was being served is lost.
Restart == /\ Faults
           /\ req' = [r \in Requests |-> Idle]
           /\ UNCHANGED <<users, refresh, issued, jar>>

---------------------------------------------------------------------------
Serve(r) == \/ CreateUser(r) \/ GetUserByLogin(r)
            \/ GetRefreshToken(r) \/ DeleteRefreshToken(r) \/ SaveRefreshToken(r)
            \/ Respond(r) \/ ClearAuthCookies(r)

Arrive(r, b) == \/ \E u \in Users : BeginRegister(r, b, u) \/ BeginLogin(r, b, u)
                \/ BeginRefresh(r, b)
                \/ BeginLogout(r, b)

Next == \/ \E r \in Requests : Serve(r) \/ \E b \in Browsers : Arrive(r, b)
        \/ \E t \in Tokens : ExpireToken(t)
        \/ \E b \in Browsers : ExpireAccess(b) \/ ExpireRefreshCookie(b)
        \/ Restart

Spec == Init /\ [][Next]_vars

---------------------------------------------------------------------------
(* Properties.                                                             *)

\* Whoever is named by a token in Redis, by an access cookie or by a request
\* that is past its checks is a registered user.  The handlers never look the
\* user up again after GetRefreshToken or jwt.Parse: they rely on this.
IdentitiesRegistered ==
    /\ \A t \in Tokens : refresh[t] \in users \cup {NoUser}
    /\ \A b \in Browsers : jar[b].access \in users \cup {NoUser}
    /\ \A r \in Requests : At(r, "save") \/ At(r, "respond") => req[r].user \in users

\* The access cookie and the refresh cookie of one browser never stand for
\* two users, however many logins and refreshes of the browser overlap.
CookiesAgree ==
    \A b \in Browsers :
        /\ jar[b].access # NoUser
        /\ jar[b].refresh # NoToken
        => refresh[jar[b].refresh] \in {NoUser, jar[b].access}

\* A refresh token is delivered to one browser only, so that a refresh or a
\* logout in one browser never takes the session of another one away.
TokensNotShared ==
    \A b, c \in Browsers : b # c /\ jar[b].refresh # NoToken => jar[b].refresh # jar[c].refresh

\* A token is issued to one user and never comes back once it was rotated
\* away, logged out or expired.
Spent == {t \in issued : refresh[t] = NoUser}
Lifecycle == INSTANCE TokenLifecycle WITH owner <- refresh, spent <- Spent
TokensLiveOnce == Lifecycle!Spec
===========================================================================
