------------------------- MODULE AuthTokensProofs -------------------------
(***************************************************************************)
(* The safety properties of AuthTokens for any number of users, tokens,    *)
(* browsers and concurrent requests.                                       *)
(***************************************************************************)
EXTENDS AuthTokens, TLAPS

(***************************************************************************)
(* The strengthening.  A step of a handler determines which locals it has  *)
(* and what it knows of them; a stored but undelivered token is known to   *)
(* its request alone.                                                      *)
(***************************************************************************)
Located ==
    \A r \in Requests :
        /\ ~ At(r, "idle") => req[r].browser \in Browsers
        /\ At(r, "create") \/ At(r, "find") => req[r].user \in Users
        /\ At(r, "get") \/ At(r, "delete") => req[r].old \in Tokens
        /\ At(r, "delete") /\ req[r].op = "refresh" => req[r].user \in users

StoredAreIssued ==
    /\ \A t \in Tokens : refresh[t] # NoUser => t \in issued
    /\ \A b \in Browsers : jar[b].refresh \in issued \cup {NoToken}

Undelivered ==
    \A r \in Requests : At(r, "respond") =>
        /\ req[r].new \in issued
        /\ refresh[req[r].new] \in {NoUser, req[r].user}
        /\ \A b \in Browsers : jar[b].refresh # req[r].new
        /\ \A s \in Requests : r # s /\ At(s, "respond") => req[s].new # req[r].new

IInv == /\ TypeOK
        /\ IdentitiesRegistered
        /\ Located
        /\ StoredAreIssued
        /\ Undelivered
        /\ CookiesAgree
        /\ TokensNotShared

USE NoUserAssumption, NoTokenAssumption

\* Nobody is registered and nothing is issued at first.
LEMMA InitIInv == Init => IInv
BY DEF Init, IInv, TypeOK, IdentitiesRegistered, Located, StoredAreIssued, Undelivered,
       CookiesAgree, TokensNotShared, At, Idle, NoCookies,
       Request, Cookies, Steps, Ops

(***************************************************************************)
(* The steps before a token is stored: the cookies and the issued tokens   *)
(* stay, a token can only disappear, and one request moves on.             *)
(***************************************************************************)
LEMMA EarlyStep ==
    ASSUME IInv, NEW r \in Requests, TypeOK', Located',
           users \subseteq users', issued' = issued, jar' = jar,
           \A t \in Tokens : refresh'[t] \in {refresh[t], NoUser},
           \A s \in Requests : s # r => req'[s] = req[s],
           req'[r].step # "respond",
           req'[r].step = "save" => req'[r].user \in users'
    PROVE  IInv'
<1> USE DEF IInv, At
<1>1. IdentitiesRegistered'
  BY DEF IdentitiesRegistered
<1>2. StoredAreIssued'
  BY DEF StoredAreIssued
<1>3. Undelivered'
  <2> SUFFICES ASSUME NEW s \in Requests, req'[s].step = "respond"
               PROVE  /\ req'[s].new \in issued'
                      /\ refresh'[req'[s].new] \in {NoUser, req'[s].user}
                      /\ \A b \in Browsers : jar'[b].refresh # req'[s].new
                      /\ \A q \in Requests : s # q /\ req'[q].step = "respond"
                                             => req'[q].new # req'[s].new
    BY DEF Undelivered
  <2>1. s # r /\ req'[s] = req[s]
    OBVIOUS
  <2>2. \A q \in Requests : req'[q].step = "respond" => req'[q] = req[q]
    OBVIOUS
  <2>3. req[s].new \in Tokens
    BY <2>1 DEF Undelivered, TypeOK
  <2> QED  BY <2>1, <2>2, <2>3 DEF Undelivered
<1>4. CookiesAgree'
  BY DEF CookiesAgree, StoredAreIssued, TypeOK
<1>5. TokensNotShared'
  BY DEF TokensNotShared
<1> QED  BY <1>1, <1>2, <1>3, <1>4, <1>5

\* A new request carries the cookies of a browser and knows nothing yet.
LEMMA BeginIInv ==
    ASSUME IInv, NEW r \in Requests, NEW b \in Browsers, Arrive(r, b)
    PROVE  IInv'
<1> USE DEF IInv, Arrive, BeginRegister, BeginLogin, BeginRefresh, BeginLogout, Begin, At, Idle
<1>1. TypeOK'
  BY DEF TypeOK, Request, Cookies, Steps, Ops
<1>2. \A s \in Requests : s # r => req'[s] = req[s]
  BY DEF TypeOK
<1>3. /\ users \subseteq users' /\ issued' = issued /\ jar' = jar
      /\ \A t \in Tokens : refresh'[t] \in {refresh[t], NoUser}
  BY DEF TypeOK
<1>4. /\ req'[r].step # "respond"
      /\ req'[r].step = "save" => req'[r].user \in users'
  BY DEF TypeOK, Request, Cookies, Steps, Ops
<1>5. Located'
  BY <1>2, <1>3 DEF Located, TypeOK, Request, Cookies, Steps, Ops
<1> QED  BY ONLY IInv, r \in Requests, <1>1, <1>2, <1>3, <1>4, <1>5, EarlyStep

\* The users table grows, and the request learns that its user is in it.
LEMMA CreateUserIInv ==
    ASSUME IInv, NEW r \in Requests, CreateUser(r)
    PROVE  IInv'
<1> USE DEF IInv, CreateUser, At, GoTo, Finish, Idle
<1>1. TypeOK'
  <2>1. req[r].user \in Users
    BY DEF Located
  <2>2. users' \subseteq Users
    BY <2>1 DEF TypeOK
  <2>3. req' \in [Requests -> Request]
    BY DEF TypeOK, Request, Steps
  <2> QED  BY <2>2, <2>3 DEF TypeOK
<1>2. \A s \in Requests : s # r => req'[s] = req[s]
  BY DEF TypeOK
<1>3. /\ users \subseteq users' /\ issued' = issued /\ jar' = jar
      /\ \A t \in Tokens : refresh'[t] \in {refresh[t], NoUser}
  BY DEF TypeOK
<1>4. /\ req'[r].step # "respond"
      /\ req'[r].step = "save" => req'[r].user \in users'
  BY DEF TypeOK, Request, Cookies, Steps, Ops
<1>5. Located'
  BY <1>2, <1>3 DEF Located, TypeOK, Request, Cookies, Steps, Ops
<1> QED  BY ONLY IInv, r \in Requests, <1>1, <1>2, <1>3, <1>4, <1>5, EarlyStep

\* The request goes on only when it has found its user.
LEMMA GetUserByLoginIInv ==
    ASSUME IInv, NEW r \in Requests, GetUserByLogin(r)
    PROVE  IInv'
<1> USE DEF IInv, GetUserByLogin, At, GoTo, Finish, Idle
<1>1. TypeOK'
  BY DEF TypeOK, Request, Cookies, Steps, Ops
<1>2. \A s \in Requests : s # r => req'[s] = req[s]
  BY DEF TypeOK
<1>3. /\ users \subseteq users' /\ issued' = issued /\ jar' = jar
      /\ \A t \in Tokens : refresh'[t] \in {refresh[t], NoUser}
  BY DEF TypeOK
<1>4. /\ req'[r].step # "respond"
      /\ req'[r].step = "save" => req'[r].user \in users'
  BY DEF TypeOK, Request, Cookies, Steps, Ops
<1>5. Located'
  BY <1>2, <1>3 DEF Located, TypeOK, Request, Cookies, Steps, Ops
<1> QED  BY ONLY IInv, r \in Requests, <1>1, <1>2, <1>3, <1>4, <1>5, EarlyStep

\* The user read from Redis is registered, as every stored identity is.
LEMMA GetRefreshTokenIInv ==
    ASSUME IInv, NEW r \in Requests, GetRefreshToken(r)
    PROVE  IInv'
<1> USE DEF IInv, GetRefreshToken, At, GoTo, Finish, Idle
<1>1. TypeOK'
  BY DEF TypeOK, Request, Cookies, Steps, Ops
<1>2. \A s \in Requests : s # r => req'[s] = req[s]
  BY DEF TypeOK
<1>3. /\ users \subseteq users' /\ issued' = issued /\ jar' = jar
      /\ \A t \in Tokens : refresh'[t] \in {refresh[t], NoUser}
  BY DEF TypeOK
<1>4. /\ req'[r].step # "respond"
      /\ req'[r].step = "save" => req'[r].user \in users'
  BY DEF TypeOK, Request, Cookies, Steps, Ops, IdentitiesRegistered, Located
<1>5. Located'
  BY <1>2, <1>3 DEF Located, TypeOK, Request, Cookies, Steps, Ops, IdentitiesRegistered, Located
<1> QED  BY ONLY IInv, r \in Requests, <1>1, <1>2, <1>3, <1>4, <1>5, EarlyStep

\* A token disappears, and a refresh goes on with the user it has read.
LEMMA DeleteRefreshTokenIInv ==
    ASSUME IInv, NEW r \in Requests, DeleteRefreshToken(r)
    PROVE  IInv'
<1> USE DEF IInv, DeleteRefreshToken, Without, At, GoTo, Finish, Idle
<1>1. TypeOK'
  BY DEF TypeOK, Request, Cookies, Steps, Ops
<1>2. \A s \in Requests : s # r => req'[s] = req[s]
  BY DEF TypeOK
<1>3. /\ users \subseteq users' /\ issued' = issued /\ jar' = jar
      /\ \A t \in Tokens : refresh'[t] \in {refresh[t], NoUser}
  BY DEF TypeOK
<1>4. /\ req'[r].step # "respond"
      /\ req'[r].step = "save" => req'[r].user \in users'
  BY DEF TypeOK, Request, Cookies, Steps, Ops, Located
<1>5. Located'
  BY <1>2, <1>3 DEF Located, TypeOK, Request, Cookies, Steps, Ops
<1> QED  BY ONLY IInv, r \in Requests, <1>1, <1>2, <1>3, <1>4, <1>5, EarlyStep

\* The stored token is in no cookie and known to no other request, being fresh.
LEMMA SaveRefreshTokenIInv ==
    ASSUME IInv, NEW r \in Requests, SaveRefreshToken(r)
    PROVE  IInv'
<1> USE DEF IInv, At
<1>1. TypeOK'
  BY DEF SaveRefreshToken, FreshTokens, Finish, TypeOK, Idle, Request, Cookies, Steps, Ops
<1>2. users' = users /\ jar' = jar /\ req[r].step = "save" /\ req[r].user \in users
  BY DEF SaveRefreshToken, IdentitiesRegistered
<1>3. \A s \in Requests : s # r => req'[s] = req[s]
  BY DEF SaveRefreshToken, Finish, TypeOK
<1>4. \/ /\ refresh' = refresh /\ issued' = issued /\ req'[r] = Idle
      \/ \E t \in Tokens \ issued :
            /\ issued' = issued \cup {t}
            /\ refresh'[t] = req[r].user
            /\ \A u \in Tokens : u # t => refresh'[u] = refresh[u]
            /\ \/ req'[r] = Idle
               \/ /\ req'[r].step = "respond" /\ req'[r].user = req[r].user
                  /\ req'[r].new = t /\ req'[r].browser = req[r].browser
  BY DEF SaveRefreshToken, FreshTokens, Finish, TypeOK, Request, Cookies, Steps, Ops
<1>5. IdentitiesRegistered'
  BY <1>1, <1>2, <1>3, <1>4 DEF IdentitiesRegistered, Idle, TypeOK
<1>6. Located'
  BY <1>1, <1>2, <1>3, <1>4 DEF Located, IdentitiesRegistered, Idle, TypeOK
<1>7. StoredAreIssued'
  BY <1>1, <1>2, <1>3, <1>4 DEF StoredAreIssued, Undelivered, Idle, TypeOK
<1>8. Undelivered'
  BY <1>1, <1>2, <1>3, <1>4 DEF Undelivered, StoredAreIssued, Idle, TypeOK
<1>9. CookiesAgree'
  BY <1>1, <1>2, <1>3, <1>4 DEF CookiesAgree, Undelivered, StoredAreIssued, Idle, TypeOK
<1>10. TokensNotShared'
  BY <1>1, <1>2, <1>3, <1>4 DEF TokensNotShared, Undelivered, StoredAreIssued, Idle, TypeOK
<1> QED  BY <1>1, <1>5, <1>6, <1>7, <1>8, <1>9, <1>10

\* The cookies come from one request, and no other browser has its token.
LEMMA RespondIInv ==
    ASSUME IInv, NEW r \in Requests, Respond(r)
    PROVE  IInv'
<1> USE DEF IInv, At
<1>1. TypeOK'
  BY DEF Respond, Deliver, SetAuthCookies, Finish, TypeOK, Idle, Request, Cookies, Steps, Ops
<1>2. users' = users /\ refresh' = refresh /\ issued' = issued
  BY DEF Respond
<1>3. \A s \in Requests : s # r => req'[s] = req[s]
  BY DEF Respond, Deliver, Finish, TypeOK
<1>4. req'[r] = Idle /\ req[r].step = "respond" /\ req[r].browser \in Browsers
  BY DEF Respond, Deliver, Finish, TypeOK, Located
<1>5. /\ \A b \in Browsers : b # req[r].browser => jar'[b] = jar[b]
      /\ jar'[req[r].browser] \in {jar[req[r].browser], SetAuthCookies(r)}
  BY <1>4 DEF Respond, Deliver, TypeOK
<1> USE DEF SetAuthCookies
<1>6. IdentitiesRegistered'
  BY <1>1, <1>2, <1>3, <1>4, <1>5 DEF IdentitiesRegistered, Idle, TypeOK
<1>7. Located'
  BY <1>1, <1>2, <1>3, <1>4, <1>5 DEF Located, IdentitiesRegistered, Idle, TypeOK
<1>8. StoredAreIssued'
  BY <1>1, <1>2, <1>3, <1>4, <1>5 DEF StoredAreIssued, Undelivered, Idle, TypeOK
<1>9. Undelivered'
  BY <1>1, <1>2, <1>3, <1>4, <1>5 DEF Undelivered, StoredAreIssued, Idle, TypeOK
<1>10. CookiesAgree'
  BY <1>1, <1>2, <1>3, <1>4, <1>5 DEF CookiesAgree, Undelivered, StoredAreIssued, Idle, TypeOK
<1>11. TokensNotShared'
  BY <1>1, <1>2, <1>3, <1>4, <1>5 DEF TokensNotShared, Undelivered, StoredAreIssued, Idle, TypeOK
<1> QED  BY <1>1, <1>6, <1>7, <1>8, <1>9, <1>10, <1>11

\* Empty cookies agree with everything.
LEMMA ClearAuthCookiesIInv ==
    ASSUME IInv, NEW r \in Requests, ClearAuthCookies(r)
    PROVE  IInv'
<1> USE DEF IInv, At
<1>1. TypeOK'
  BY DEF ClearAuthCookies, Deliver, NoCookies, Finish, TypeOK, Idle, Request, Cookies, Steps, Ops
<1>2. users' = users /\ refresh' = refresh /\ issued' = issued
  BY DEF ClearAuthCookies
<1>3. \A s \in Requests : s # r => req'[s] = req[s]
  BY DEF ClearAuthCookies, Deliver, Finish, TypeOK
<1>4. req'[r] = Idle /\ req[r].step = "clear" /\ req[r].browser \in Browsers
  BY DEF ClearAuthCookies, Deliver, Finish, TypeOK, Located
<1>5. /\ \A b \in Browsers : b # req[r].browser => jar'[b] = jar[b]
      /\ jar'[req[r].browser] \in {jar[req[r].browser], NoCookies}
  BY <1>4 DEF ClearAuthCookies, Deliver, TypeOK
<1> USE DEF NoCookies
<1>6. IdentitiesRegistered'
  BY <1>1, <1>2, <1>3, <1>4, <1>5 DEF IdentitiesRegistered, Idle, TypeOK
<1>7. Located'
  BY <1>1, <1>2, <1>3, <1>4, <1>5 DEF Located, IdentitiesRegistered, Idle, TypeOK
<1>8. StoredAreIssued'
  BY <1>1, <1>2, <1>3, <1>4, <1>5 DEF StoredAreIssued, Undelivered, Idle, TypeOK
<1>9. Undelivered'
  BY <1>1, <1>2, <1>3, <1>4, <1>5 DEF Undelivered, StoredAreIssued, Idle, TypeOK
<1>10. CookiesAgree'
  BY <1>1, <1>2, <1>3, <1>4, <1>5 DEF CookiesAgree, Undelivered, StoredAreIssued, Idle, TypeOK
<1>11. TokensNotShared'
  BY <1>1, <1>2, <1>3, <1>4, <1>5 DEF TokensNotShared, Undelivered, StoredAreIssued, Idle, TypeOK
<1> QED  BY <1>1, <1>6, <1>7, <1>8, <1>9, <1>10, <1>11

\* Keys and cookies only disappear.
LEMMA ExpiryIInv ==
    ASSUME IInv, \/ \E t \in Tokens : ExpireToken(t)
                 \/ \E b \in Browsers : ExpireAccess(b) \/ ExpireRefreshCookie(b)
    PROVE  IInv'
<1>1. CASE \E t \in Tokens : ExpireToken(t)
  BY <1>1 DEF ExpireToken, Without, IInv, TypeOK, IdentitiesRegistered, Located, StoredAreIssued, Undelivered,
       CookiesAgree, TokensNotShared,
       At, Request, Cookies, Steps, Ops
<1>2. CASE \E b \in Browsers : ExpireAccess(b)
  BY <1>2 DEF ExpireAccess, IInv, TypeOK, IdentitiesRegistered, Located, StoredAreIssued, Undelivered,
       CookiesAgree, TokensNotShared,
       At, Request, Cookies, Steps, Ops
<1>3. CASE \E b \in Browsers : ExpireRefreshCookie(b)
  BY <1>3 DEF ExpireRefreshCookie, IInv, TypeOK, IdentitiesRegistered, Located, StoredAreIssued, Undelivered,
       CookiesAgree, TokensNotShared,
       At, Request, Cookies, Steps, Ops
<1> QED  BY <1>1, <1>2, <1>3

\* Nothing but the requests is lost.
LEMMA RestartIInv ==
    ASSUME IInv, Restart
    PROVE  IInv'
BY DEF Restart, IInv, TypeOK, IdentitiesRegistered, Located, StoredAreIssued, Undelivered,
       CookiesAgree, TokensNotShared,
       At, Idle, Request, Cookies, Steps, Ops

\* The strengthening is an invariant of every behaviour.
THEOREM Inductive == Spec => []IInv
<1>1. Init => IInv
  BY InitIInv
<1>2. IInv /\ [Next]_vars => IInv'
  <2> SUFFICES ASSUME IInv, [Next]_vars  PROVE IInv'
    OBVIOUS
  <2>1. CASE UNCHANGED vars
    BY <2>1 DEF vars, IInv, TypeOK, IdentitiesRegistered, Located, StoredAreIssued,
                Undelivered, CookiesAgree, TokensNotShared, At
  <2>2. ASSUME NEW r \in Requests, Serve(r)  PROVE IInv'
    BY <2>2, CreateUserIInv, GetUserByLoginIInv, GetRefreshTokenIInv, DeleteRefreshTokenIInv,
       SaveRefreshTokenIInv, RespondIInv, ClearAuthCookiesIInv DEF Serve
  <2>3. ASSUME NEW r \in Requests, NEW b \in Browsers, Arrive(r, b)  PROVE IInv'
    BY <2>3, BeginIInv
  <2>4. CASE \/ \E t \in Tokens : ExpireToken(t)
             \/ \E b \in Browsers : ExpireAccess(b) \/ ExpireRefreshCookie(b)
    BY <2>4, ExpiryIInv
  <2>5. CASE Restart
    BY <2>5, RestartIInv
  <2> QED  BY <2>1, <2>2, <2>3, <2>4, <2>5 DEF Next
<1> QED  BY <1>1, <1>2, PTL DEF Spec

\* The variables keep their types.
THEOREM TypeCorrect == Spec => []TypeOK
BY Inductive, PTL DEF IInv

\* Tokens, access cookies and requests past their checks name registered users.
THEOREM IdentitiesAreRegistered == Spec => []IdentitiesRegistered
BY Inductive, PTL DEF IInv

\* The two cookies of a browser never stand for two users.
THEOREM CookiesAlwaysAgree == Spec => []CookiesAgree
BY Inductive, PTL DEF IInv

\* No two browsers hold the same refresh token.
THEOREM TokensAreNotShared == Spec => []TokensNotShared
BY Inductive, PTL DEF IInv

(***************************************************************************)
(* A refresh carries a token that was issued; it is of the user it was     *)
(* issued to or nobody's, since no token is issued twice.                  *)
(***************************************************************************)
Rotating(r) == At(r, "delete") \/ At(r, "save") \/ At(r, "respond")

\* The user that a refresh has read from Redis stays the one its old token stands for, until
\* the new cookies are sent: however many refreshes of that token, logouts, logins and
\* restarts come between its steps, a rotation hands a session to nobody else.
RotationKeepsUser ==
    \A r \in Requests :
        /\ req[r].op = "refresh"
        /\ At(r, "delete") \/ At(r, "save") \/ At(r, "respond")
        => refresh[req[r].old] \in {NoUser, req[r].user}

Carries(q) == q.op = "refresh" =>
    /\ q.old \in issued
    /\ q.step \in {"get", "delete", "save", "respond"}
    /\ q.step # "get" => refresh[q.old] \in {NoUser, q.user}

Carried == \A r \in Requests : Carries(req[r])

\* The tokens that were issued keep their user or lose it, and one request moves on with the
\* token and the user it has, or ends.
LEMMA CarriedStep ==
    ASSUME Carried, NEW r \in Requests, issued \subseteq issued',
           \A t \in issued : refresh'[t] \in {refresh[t], NoUser},
           \A s \in Requests : s # r => req'[s] = req[s],
           Carries(req'[r])
    PROVE  Carried'
<1>1. \A s \in Requests : Carries(req'[s])
  BY DEF Carried
<1> QED  BY <1>1 DEF Carried, Carries

\* Logging in or registering carries no token; what a refresh reads is the user of its token.
LEMMA FoundCarried ==
    ASSUME IInv, Carried, NEW r \in Requests, CreateUser(r) \/ GetUserByLogin(r) \/ GetRefreshToken(r)
    PROVE  Carried'
<1>0. req \in [Requests -> Request] /\ req[r] \in Request /\ Carries(req[r])
  BY DEF IInv, TypeOK, Carried
<1>1. /\ issued' = issued /\ refresh' = refresh
      /\ \A s \in Requests : s # r => req'[s] = req[s]
  BY <1>0 DEF CreateUser, GetUserByLogin, GetRefreshToken, GoTo, Finish
<1>2. \/ req'[r] = Idle
      \/ req'[r].op = req[r].op /\ req[r].step \in {"create", "find"}
      \/ /\ req'[r].op = req[r].op /\ req'[r].old = req[r].old /\ req'[r].step = "delete"
         /\ req'[r].user = refresh[req[r].old]
  <2>1. CASE CreateUser(r)
    BY <1>0, <2>1 DEF CreateUser, At, GoTo, Finish, Request
  <2>2. CASE GetUserByLogin(r)
    BY <1>0, <2>2 DEF GetUserByLogin, At, GoTo, Finish, Request
  <2>3. CASE GetRefreshToken(r)
    BY <1>0, <2>3 DEF GetRefreshToken, Finish, Request
  <2> QED  BY <2>1, <2>2, <2>3
<1>3. Carries(req'[r])
  BY <1>0, <1>2 DEF Carries, Idle
<1> QED  BY <1>1, <1>3, CarriedStep

LEMMA SavedCarried ==
    ASSUME IInv, Carried, NEW r \in Requests, DeleteRefreshToken(r) \/ SaveRefreshToken(r)
    PROVE  Carried'
<1>0. /\ req \in [Requests -> Request] /\ req[r] \in Request /\ Carries(req[r])
      /\ refresh \in [Tokens -> Users \cup {NoUser}] /\ issued \subseteq Tokens
  BY DEF IInv, TypeOK, Carried
<1>1. /\ issued \subseteq issued'
      /\ \A s \in Requests : s # r => req'[s] = req[s]
  BY <1>0 DEF DeleteRefreshToken, SaveRefreshToken, GoTo, Finish
<1>2. \A t \in issued : refresh'[t] \in {refresh[t], NoUser}
  BY <1>0 DEF DeleteRefreshToken, SaveRefreshToken, Without, FreshTokens
<1>3. \/ req'[r] = Idle
      \/ /\ req'[r].op = req[r].op /\ req'[r].old = req[r].old /\ req'[r].user = req[r].user
         /\ req[r].step # "get" /\ req[r].op = "refresh" => req'[r].step \in {"save", "respond"}
  <2>1. CASE DeleteRefreshToken(r)
    BY <1>0, <2>1 DEF DeleteRefreshToken, At, GoTo, Request
  <2>2. CASE SaveRefreshToken(r)
    BY <1>0, <2>2 DEF SaveRefreshToken, At, Finish, Request
  <2> QED  BY <2>1, <2>2
<1>4. req[r].step # "get"
  BY DEF DeleteRefreshToken, SaveRefreshToken, At
<1>5. Carries(req'[r])
  BY <1>0, <1>3, <1>4 DEF Carries, Idle
<1> QED  BY <1>1, <1>2, <1>5, CarriedStep

LEMMA AnsweredCarried ==
    ASSUME IInv, Carried, NEW r \in Requests, Respond(r) \/ ClearAuthCookies(r) PROVE Carried'
<1>1. /\ issued' = issued /\ refresh' = refresh /\ req'[r] = Idle
      /\ \A s \in Requests : s # r => req'[s] = req[s]
  BY DEF Respond, ClearAuthCookies, Deliver, Finish, IInv, TypeOK
<1>2. Carries(req'[r])
  BY <1>1 DEF Carries, Idle
<1> QED  BY <1>1, <1>2, CarriedStep

\* The cookie of a browser was issued.
LEMMA ArrivalCarried ==
    ASSUME IInv, Carried, NEW r \in Requests, NEW b \in Browsers, Arrive(r, b) PROVE Carried'
<1>1. /\ issued' = issued /\ refresh' = refresh
      /\ \A s \in Requests : s # r => req'[s] = req[s]
  BY DEF Arrive, BeginRegister, BeginLogin, BeginRefresh, BeginLogout, Begin, IInv, TypeOK
<1>2. \/ req'[r].op \in {"register", "login", "logout"}
      \/ req'[r].op = "refresh" /\ req'[r].step = "get" /\ req'[r].old \in issued
  BY DEF Arrive, BeginRegister, BeginLogin, BeginRefresh, BeginLogout, Begin, IInv, TypeOK, StoredAreIssued
<1>3. Carries(req'[r])
  BY <1>2 DEF Carries
<1> QED  BY <1>1, <1>3, CarriedStep

LEMMA NextCarried == IInv /\ Carried /\ [Next]_vars => Carried'
<1> SUFFICES ASSUME IInv, Carried, [Next]_vars PROVE Carried'
  OBVIOUS
<1>1. ASSUME issued' = issued, req' = req, \A t \in Tokens : refresh'[t] \in {refresh[t], NoUser}
      PROVE  Carried'
  BY <1>1 DEF Carried, Carries, IInv, TypeOK
<1>2. CASE UNCHANGED vars
  BY <1>1, <1>2 DEF vars
<1>3. CASE \E t \in Tokens : ExpireToken(t)
  BY <1>1, <1>3 DEF ExpireToken, Without, IInv, TypeOK
<1>4. CASE \E b \in Browsers : ExpireAccess(b) \/ ExpireRefreshCookie(b)
  BY <1>1, <1>4 DEF ExpireAccess, ExpireRefreshCookie
<1>5. CASE Restart
  BY <1>5 DEF Restart, Carried, Carries, Idle
<1>6. ASSUME NEW r \in Requests, Serve(r) PROVE Carried'
  BY <1>6, FoundCarried, SavedCarried, AnsweredCarried DEF Serve
<1> QED  BY <1>2, <1>3, <1>4, <1>5, <1>6, ArrivalCarried DEF Next

\* A rotation keeps the user of its token.
THEOREM RotationsKeepUser == Spec => []RotationKeepsUser
<1>1. Init => Carried
  BY DEF Init, Carried, Carries, Idle
<1>2. IInv /\ Carried => RotationKeepsUser
  BY DEF Carried, Carries, RotationKeepsUser, At
<1> QED  BY <1>1, <1>2, NextCarried, Inductive, PTL DEF Spec

(***************************************************************************)
(* The handlers implement TokenLifecycle: what they do to the store is to  *)
(* issue a fresh token or to spend a live one.                             *)
(***************************************************************************)
LEMMA SpendStep ==
    ASSUME IInv, NEW t \in Tokens, refresh' = Without(refresh, t), issued' = issued
    PROVE  [Lifecycle!Next]_<<refresh, Spent>>
<1>1. CASE refresh[t] = NoUser
  BY <1>1 DEF IInv, TypeOK, Without, Spent
<1>2. CASE refresh[t] # NoUser
  <2>1. t \in issued
    BY <1>2 DEF IInv, StoredAreIssued
  <2>2. Spent' = Spent \cup {t}
    BY <2>1 DEF IInv, TypeOK, Without, Spent
  <2>3. Lifecycle!Spend(t)
    BY <1>2, <2>2 DEF Lifecycle!Spend, Without
  <2> QED  BY <2>3 DEF Lifecycle!Next
<1> QED  BY <1>1, <1>2

\* Storing a token is an Issue: it was never stored before.
LEMMA IssueStep ==
    ASSUME IInv, NEW r \in Requests, SaveRefreshToken(r)
    PROVE  [Lifecycle!Next]_<<refresh, Spent>>
<1>1. CASE UNCHANGED <<refresh, issued>>
  BY <1>1 DEF Spent
<1>2. ASSUME NEW t \in FreshTokens, issued' = issued \cup {t},
             refresh' = [refresh EXCEPT ![t] = req[r].user]
      PROVE  Lifecycle!Next
  <2>1. req[r].user \in Users /\ req[r].user # NoUser
    BY NoUserAssumption DEF IInv, TypeOK, IdentitiesRegistered, SaveRefreshToken, At
  <2>2. refresh[t] = NoUser /\ t \notin Spent /\ t \in Tokens
    BY <1>2 DEF IInv, StoredAreIssued, FreshTokens, Spent
  <2>3. Spent' = Spent
    BY <1>2, <2>1, <2>2 DEF IInv, TypeOK, Spent, FreshTokens
  <2>4. Lifecycle!Issue(t, req[r].user)
    BY <1>2, <2>2, <2>3 DEF Lifecycle!Issue
  <2> QED  BY <2>1, <2>2, <2>4 DEF Lifecycle!Next
<1> QED  BY <1>1, <1>2 DEF SaveRefreshToken

\* A token is issued to one user and never comes back once it is spent.
THEOREM TokensAreLiveOnce == Spec => TokensLiveOnce
<1>1. Init => Lifecycle!Init
  BY DEF Init, Lifecycle!Init, Spent
<1>2. IInv /\ [Next]_vars => [Lifecycle!Next]_<<refresh, Spent>>
  <2> SUFFICES ASSUME IInv, [Next]_vars  PROVE [Lifecycle!Next]_<<refresh, Spent>>
    OBVIOUS
  <2>1. CASE UNCHANGED <<refresh, issued>>
    BY <2>1 DEF Spent
  <2>2. ASSUME NEW r \in Requests, SaveRefreshToken(r)
        PROVE  [Lifecycle!Next]_<<refresh, Spent>>
    BY <2>2, IssueStep
  <2>3. ASSUME NEW r \in Requests, DeleteRefreshToken(r), ~ UNCHANGED refresh
        PROVE  [Lifecycle!Next]_<<refresh, Spent>>
    BY <2>3, SpendStep DEF DeleteRefreshToken, IInv, Located, At
  <2>4. ASSUME NEW t \in Tokens, ExpireToken(t)
        PROVE  [Lifecycle!Next]_<<refresh, Spent>>
    BY <2>4, SpendStep DEF ExpireToken
  <2>5. ASSUME NEW r \in Requests, Serve(r), ~ SaveRefreshToken(r)
        PROVE  UNCHANGED issued /\ (DeleteRefreshToken(r) \/ UNCHANGED refresh)
    BY <2>5 DEF Serve, CreateUser, GetUserByLogin, GetRefreshToken, DeleteRefreshToken,
                Respond, ClearAuthCookies
  <2>6. ASSUME NEW r \in Requests, NEW b \in Browsers, Arrive(r, b)
        PROVE  UNCHANGED <<refresh, issued>>
    BY <2>6 DEF Arrive, BeginRegister, BeginLogin, BeginRefresh, BeginLogout, Begin
  <2>7. CASE \/ UNCHANGED vars \/ Restart
             \/ \E b \in Browsers : ExpireAccess(b) \/ ExpireRefreshCookie(b)
    BY <2>1, <2>7 DEF vars, Restart, ExpireAccess, ExpireRefreshCookie
  <2> QED  BY <2>1, <2>2, <2>3, <2>4, <2>5, <2>6, <2>7 DEF Next
<1> QED  BY <1>1, <1>2, Inductive, PTL DEF Spec, Lifecycle!Spec, TokensLiveOnce
===========================================================================
