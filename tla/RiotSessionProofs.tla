------------------------- MODULE RiotSessionProofs -------------------------
(***************************************************************************)
(* Proofs about RiotSession, for any players, users, tokens and requests.  *)
(*                                                                         *)
(* What is stored is right because of what the request that stores it has  *)
(* learnt on the way: Knows says what a request at each step may rely on.  *)
(***************************************************************************)
EXTENDS RiotSession, TLAPS

Knows(q) ==
    /\ q.step \in LinkSteps => q.user \in Users /\ q.token \in Tokens
    /\ q.step \in {"entitlement", "playerinfo"} => q.puuid = Blank
    /\ q.step \in {"entitlement", "playerinfo", "geo"} => q.region = NoRegion
    /\ q.step \in {"geo", "session", "cookies", "account"} => q.puuid \in {OwnerOf[q.token], Blank}
    /\ q.step \in {"session", "cookies", "account"} => q.region \in {RegionOf[OwnerOf[q.token]], NoRegion}
    /\ q.step \in {"cookies", "account"} => <<q.user, q.puuid>> \in saved
    /\ q.step \in UseSteps => q.puuid \in Players
    /\ q.step \in {"client", "drop", "call"} => q.token \in Tokens /\ OwnerOf[q.token] = q.puuid
    /\ q.step = "drop" => q.token \notin alive

SessionsRight ==
    \A p \in Players : session[p] # NoSession =>
        OwnerOf[session[p].token] = p /\ session[p].region \in {RegionOf[p], NoRegion}

CookiesRight == \A p \in Players : cookies[p] # NoToken => OwnerOf[cookies[p]] = p

IInv == /\ TypeOK
        /\ \A r \in Requests : Knows(req[r])
        /\ SessionsRight
        /\ CookiesRight
        /\ AccountsCorrect

USE OwnerOfAssumption, RegionOfAssumption, BlankAssumption, NoRegionAssumption,
    NoTokenAssumption, NoSessionAssumption, NoAccountAssumption

\* An idle request relies on nothing.
LEMMA IdleKnows == Idle \in Request /\ Knows(Idle) /\ Knows(Idle)'
BY DEF Idle, Request, Puuids, Knows, LinkSteps, UseSteps

\* Nothing is stored at first.
LEMMA InitIInv == Init => IInv
<1> SUFFICES ASSUME Init PROVE IInv
  OBVIOUS
<1>1. TypeOK
  BY IdleKnows DEF Init, TypeOK
<1>2. SessionsRight /\ CookiesRight /\ AccountsCorrect
  BY DEF Init, SessionsRight, CookiesRight, AccountsCorrect, Puuids
<1> QED  BY <1>1, <1>2, IdleKnows DEF IInv, Init

(***************************************************************************)
(* What one request knows is not taken away by a step of another: sessions *)
(* stay on record, and no token comes back to life.                        *)
(***************************************************************************)
LEMMA KnowledgeKept ==
    ASSUME NEW q, Knows(q), saved \subseteq saved', alive' \subseteq alive
    PROVE  Knows(q)'
BY DEF Knows

\* A step that changes one request and leaves the stores alone.
LEMMA QuietStep ==
    ASSUME IInv, NEW r \in Requests, NEW q \in Request, Knows(q),
           req' = [req EXCEPT ![r] = q],
           UNCHANGED <<alive, stores>>
    PROVE  IInv'
<1>1. UNCHANGED <<alive, session, cookies, accounts, saved>>
  BY DEF stores
<1>2. TypeOK'
  BY <1>1 DEF IInv, TypeOK
<1>3. ASSUME NEW s \in Requests
      PROVE  Knows(req[s])'
  <2>1. req'[s] = IF s = r THEN q ELSE req[s]
    BY DEF IInv, TypeOK
  <2>2. Knows(req'[s])
    BY <2>1 DEF IInv
  <2> QED  BY <1>1, <2>2 DEF Knows
<1>4. (SessionsRight /\ CookiesRight /\ AccountsCorrect)'
  BY <1>1 DEF IInv, SessionsRight, CookiesRight, AccountsCorrect
<1> QED  BY <1>2, <1>3, <1>4 DEF IInv

\* A request that ends leaves the stores as they are.
LEMMA FinishIInv ==
    ASSUME IInv, NEW r \in Requests, Finish(r), UNCHANGED <<alive, stores>>
    PROVE  IInv'
BY IdleKnows, QuietStep DEF Finish

\* A new request knows its user and token, or its player.
LEMMA ArriveIInv ==
    ASSUME IInv, NEW r \in Requests, Arrive(r)
    PROVE  IInv'
<1>1. ASSUME NEW u \in Users, NEW t \in Tokens, Link(r, u, t)
      PROVE  IInv'
  <2> DEFINE q == [Idle EXCEPT !.step = "entitlement", !.user = u, !.token = t]
  <2>1. q \in Request /\ Knows(q)
    BY DEF Idle, Request, Puuids, Knows, LinkSteps, UseSteps
  <2>2. req' = [req EXCEPT ![r] = q] /\ UNCHANGED <<alive, stores>>
    BY <1>1 DEF Link
  <2> HIDE DEF q
  <2> QED  BY <2>1, <2>2, QuietStep
<1>2. ASSUME NEW p \in Players, Use(r, p)
      PROVE  IInv'
  <2> DEFINE q == [Idle EXCEPT !.step = "get", !.puuid = p]
  <2>1. q \in Request /\ Knows(q)
    BY DEF Idle, Request, Puuids, Knows, LinkSteps, UseSteps
  <2>2. req' = [req EXCEPT ![r] = q] /\ UNCHANGED <<alive, stores>>
    BY <1>2 DEF Use
  <2> HIDE DEF q
  <2> QED  BY <2>1, <2>2, QuietStep
<1> QED  BY <1>1, <1>2 DEF Arrive

\* The request goes on to ask for the player.
LEMMA GetEntitlementIInv ==
    ASSUME IInv, NEW r \in Requests, GetEntitlement(r)
    PROVE  IInv'
<1>1. CASE At(r, "entitlement") /\ GoTo(r, "playerinfo") /\ UNCHANGED <<alive, stores>>
  <2> DEFINE q == [req[r] EXCEPT !.step = "playerinfo"]
  <2>1. req[r] \in Request /\ Knows(req[r]) /\ req[r].step = "entitlement"
    BY <1>1 DEF IInv, TypeOK, At
  <2>2. q \in Request /\ Knows(q)
    BY <2>1 DEF Request, Knows, LinkSteps, UseSteps
  <2>3. req' = [req EXCEPT ![r] = q]
    BY <1>1 DEF GoTo
  <2> HIDE DEF q
  <2> QED  BY <1>1, <2>2, <2>3, QuietStep
<1> QED  BY <1>1, FinishIInv DEF GetEntitlement

\* The puuid is the token's player, or blank.
LEMMA GetPlayerInfoIInv ==
    ASSUME IInv, NEW r \in Requests, GetPlayerInfo(r)
    PROVE  IInv'
<1>1. ASSUME At(r, "playerinfo"), UNCHANGED <<alive, stores>>,
             NEW p \in {OwnerOf[req[r].token], Blank},
             req' = [req EXCEPT ![r] = [req[r] EXCEPT !.step = "geo", !.puuid = p]]
      PROVE  IInv'
  <2> DEFINE q == [req[r] EXCEPT !.step = "geo", !.puuid = p]
  <2>1. req[r] \in Request /\ Knows(req[r]) /\ req[r].step = "playerinfo"
    BY <1>1 DEF IInv, TypeOK, At
  <2>2. req[r].token \in Tokens /\ req[r].user \in Users /\ req[r].region = NoRegion
    BY <2>1 DEF Knows, LinkSteps
  <2>3. p \in Puuids
    BY <2>2 DEF Puuids
  <2>4. q \in Request
    BY <2>1, <2>3 DEF Request, LinkSteps
  <2>5. /\ q.step = "geo" /\ q.puuid = p /\ q.user = req[r].user
        /\ q.token = req[r].token /\ q.region = req[r].region
    BY <2>1 DEF Request
  <2>6. req' = [req EXCEPT ![r] = q]
    BY <1>1
  <2> HIDE DEF q
  <2>7. Knows(q)
    BY <2>2, <2>5 DEF Knows, LinkSteps, UseSteps
  <2> QED  BY <1>1, <2>4, <2>6, <2>7, QuietStep
<1>2. CASE req' = [req EXCEPT ![r].step = "geo", ![r].puuid = OwnerOf[req[r].token]]
  BY <1>1, <1>2 DEF GetPlayerInfo
<1>3. CASE GoTo(r, "geo")
  <2>1. At(r, "playerinfo") /\ UNCHANGED <<alive, stores>>
    BY DEF GetPlayerInfo
  <2>2. req[r] \in Request /\ req[r].puuid = Blank
    BY <2>1 DEF IInv, TypeOK, Knows, At
  <2>3. [req[r] EXCEPT !.step = "geo", !.puuid = Blank] = [req[r] EXCEPT !.step = "geo"]
    BY <2>2 DEF Request
  <2> QED  BY <1>1, <1>3, <2>1, <2>3 DEF GoTo
<1>4. CASE Finish(r)
  BY <1>4, FinishIInv DEF GetPlayerInfo
<1> QED  BY <1>2, <1>3, <1>4 DEF GetPlayerInfo

\* The region is the one of the token's player, or none.
LEMMA GetRiotGeoIInv ==
    ASSUME IInv, NEW r \in Requests, GetRiotGeo(r)
    PROVE  IInv'
<1>1. ASSUME At(r, "geo"), UNCHANGED <<alive, stores>>,
             NEW g \in {RegionOf[OwnerOf[req[r].token]], NoRegion},
             req' = [req EXCEPT ![r] = [req[r] EXCEPT !.step = "session", !.region = g]]
      PROVE  IInv'
  <2> DEFINE q == [req[r] EXCEPT !.step = "session", !.region = g]
  <2>1. req[r] \in Request /\ Knows(req[r]) /\ req[r].step = "geo"
    BY <1>1 DEF IInv, TypeOK, At
  <2>2. /\ req[r].token \in Tokens /\ req[r].user \in Users
        /\ req[r].puuid \in {OwnerOf[req[r].token], Blank}
    BY <2>1 DEF Knows, LinkSteps
  <2>3. g \in Regions \cup {NoRegion}
    BY <2>2
  <2>4. q \in Request
    BY <2>1, <2>3 DEF Request, LinkSteps
  <2>5. /\ q.step = "session" /\ q.region = g /\ q.user = req[r].user
        /\ q.token = req[r].token /\ q.puuid = req[r].puuid
    BY <2>1 DEF Request
  <2>6. req' = [req EXCEPT ![r] = q]
    BY <1>1
  <2> HIDE DEF q
  <2>7. Knows(q)
    BY <2>2, <2>5 DEF Knows, LinkSteps, UseSteps
  <2> QED  BY <1>1, <2>4, <2>6, <2>7, QuietStep
<1>2. CASE req' = [req EXCEPT ![r].step = "session",
                              ![r].region = RegionOf[OwnerOf[req[r].token]]]
  BY <1>1, <1>2 DEF GetRiotGeo
<1>3. CASE GoTo(r, "session")
  <2>1. At(r, "geo") /\ UNCHANGED <<alive, stores>>
    BY DEF GetRiotGeo
  <2>2. req[r] \in Request /\ req[r].region = NoRegion
    BY <2>1 DEF IInv, TypeOK, Knows, At
  <2>3. [req[r] EXCEPT !.step = "session", !.region = NoRegion] = [req[r] EXCEPT !.step = "session"]
    BY <2>2 DEF Request
  <2> QED  BY <1>1, <1>3, <2>1, <2>3 DEF GoTo
<1>4. CASE Finish(r)
  BY <1>4, FinishIInv DEF GetRiotGeo
<1> QED  BY <1>2, <1>3, <1>4 DEF GetRiotGeo

(***************************************************************************)
(* The part of the invariant about requests, for a step that writes to a   *)
(* store as well.                                                          *)
(***************************************************************************)
LEMMA RequestsStillKnow ==
    ASSUME IInv, NEW r \in Requests, NEW q \in Request,
           req' = [req EXCEPT ![r] = q],
           Knows(q)',
           saved \subseteq saved', alive' \subseteq alive
    PROVE  req' \in [Requests -> Request] /\ \A s \in Requests : Knows(req[s])'
<1>1. req' \in [Requests -> Request]
  BY DEF IInv, TypeOK
<1>2. ASSUME NEW s \in Requests
      PROVE  Knows(req[s])'
  <2>1. req'[s] = IF s = r THEN q ELSE req[s]
    BY DEF IInv, TypeOK
  <2>2. CASE s = r
    BY <2>1, <2>2 DEF Knows
  <2>3. CASE s # r
    <3>1. Knows(req[s])
      BY DEF IInv
    <3> QED  BY <2>1, <2>3, <3>1 DEF Knows
  <2> QED  BY <2>2, <2>3
<1> QED  BY <1>1, <1>2

\* The session stored is one of the player it is stored under, and on record.
LEMMA SaveSessionIInv ==
    ASSUME IInv, NEW r \in Requests, SaveSession(r)
    PROVE  IInv'
<1>1. CASE Finish(r) /\ UNCHANGED <<session, saved>>
  BY <1>1, FinishIInv DEF SaveSession, stores
<1>2. ASSUME session' = [session EXCEPT ![req[r].puuid] =
                            [token |-> req[r].token, region |-> req[r].region]],
             saved' = saved \cup {<<req[r].user, req[r].puuid>>},
             GoTo(r, "cookies") \/ Finish(r)
      PROVE  IInv'
  <2> DEFINE u == req[r].user
             t == req[r].token
             p == req[r].puuid
             g == req[r].region
  <2>1. /\ req[r] \in Request /\ Knows(req[r]) /\ req[r].step = "session"
        /\ UNCHANGED <<alive, cookies, accounts>>
    BY DEF IInv, TypeOK, SaveSession, At
  <2>2. /\ u \in Users /\ t \in Tokens
        /\ p \in Puuids /\ p \in {OwnerOf[t], Blank}
        /\ g \in Regions \cup {NoRegion} /\ g \in {RegionOf[OwnerOf[t]], NoRegion}
    BY <2>1 DEF Knows, Request, LinkSteps
  <2>3. PICK q \in {[req[r] EXCEPT !.step = "cookies"], Idle} : req' = [req EXCEPT ![r] = q]
    BY <1>2 DEF GoTo, Finish
  <2>4. q \in Request /\ Knows(q)'
    <3>1. CASE q = Idle
      BY <3>1, IdleKnows
    <3>2. CASE q = [req[r] EXCEPT !.step = "cookies"]
      <4>1. /\ q \in Request /\ q.step = "cookies" /\ q.user = u /\ q.token = t
            /\ q.puuid = p /\ q.region = g
        BY <2>1, <3>2 DEF Request, LinkSteps
      <4>2. <<u, p>> \in saved'
        BY <1>2
      <4> QED  BY <2>2, <4>1, <4>2 DEF Knows, LinkSteps, UseSteps
    <3> QED  BY <3>1, <3>2
  <2>5. req' \in [Requests -> Request] /\ \A s \in Requests : Knows(req[s])'
    BY <1>2, <2>1, <2>3, <2>4, RequestsStillKnow
  <2> DEFINE e == [token |-> t, region |-> g]
  <2>6. e \in Session /\ e.token = t /\ e.region = g
    BY <2>2 DEF Session
  <2>7. session' = [session EXCEPT ![p] = e] /\ saved' = saved \cup {<<u, p>>}
    BY <1>2
  <2> HIDE DEF e, u, t, p, g
  <2>8. TypeOK'
    BY <2>1, <2>2, <2>5, <2>6, <2>7 DEF IInv, TypeOK
  <2>9. SessionsRight'
    BY <2>2, <2>6, <2>7 DEF IInv, TypeOK, SessionsRight, Puuids
  <2>10. CookiesRight' /\ AccountsCorrect'
    BY <2>1, <2>7 DEF IInv, CookiesRight, AccountsCorrect
  <2> QED  BY <2>5, <2>8, <2>9, <2>10 DEF IInv
<1> QED  BY <1>1, <1>2 DEF SaveSession

\* So are the cookies.
LEMMA SaveCookiesIInv ==
    ASSUME IInv, NEW r \in Requests, SaveCookies(r)
    PROVE  IInv'
<1>1. CASE Finish(r) /\ UNCHANGED cookies
  BY <1>1, FinishIInv DEF SaveCookies, stores
<1>2. ASSUME cookies' = [cookies EXCEPT ![req[r].puuid] = req[r].token],
             GoTo(r, "account") \/ Finish(r)
      PROVE  IInv'
  <2> DEFINE t == req[r].token
             p == req[r].puuid
  <2>1. /\ req[r] \in Request /\ Knows(req[r]) /\ req[r].step = "cookies"
        /\ UNCHANGED <<alive, session, accounts, saved>>
    BY DEF IInv, TypeOK, SaveCookies, At
  <2>2. t \in Tokens /\ p \in Puuids /\ p \in {OwnerOf[t], Blank}
    BY <2>1 DEF Knows, Request, LinkSteps
  <2>3. PICK q \in {[req[r] EXCEPT !.step = "account"], Idle} : req' = [req EXCEPT ![r] = q]
    BY <1>2 DEF GoTo, Finish
  <2>4. q \in Request /\ Knows(q)'
    <3>1. CASE q = Idle
      BY <3>1, IdleKnows
    <3>2. CASE q = [req[r] EXCEPT !.step = "account"]
      <4>1. /\ q \in Request /\ q.step = "account" /\ q.user = req[r].user
            /\ q.token = t /\ q.puuid = p /\ q.region = req[r].region
        BY <2>1, <3>2 DEF Request, LinkSteps
      <4> QED  BY <2>1, <4>1 DEF Knows, LinkSteps, UseSteps
    <3> QED  BY <3>1, <3>2
  <2>5. req' \in [Requests -> Request] /\ \A s \in Requests : Knows(req[s])'
    BY <2>1, <2>3, <2>4, RequestsStillKnow
  <2>6. cookies' = [cookies EXCEPT ![p] = t]
    BY <1>2
  <2> HIDE DEF t, p
  <2>7. TypeOK'
    BY <2>1, <2>2, <2>5, <2>6 DEF IInv, TypeOK
  <2>8. CookiesRight'
    BY <2>2, <2>6 DEF IInv, TypeOK, CookiesRight, Puuids
  <2>9. SessionsRight' /\ AccountsCorrect'
    BY <2>1 DEF IInv, SessionsRight, AccountsCorrect
  <2> QED  BY <2>5, <2>7, <2>8, <2>9 DEF IInv
<1> QED  BY <1>1, <1>2 DEF SaveCookies

\* A region that the database accepts is the player's.
LEMMA CreateAccountIInv ==
    ASSUME IInv, NEW r \in Requests, CreateAccount(r)
    PROVE  IInv'
<1>1. CASE UNCHANGED accounts
  BY <1>1, FinishIInv DEF CreateAccount, stores
<1>2. ASSUME req[r].region \in Regions,
             accounts' = [accounts EXCEPT ![req[r].puuid] =
                             [user |-> req[r].user, region |-> req[r].region]]
      PROVE  IInv'
  <2> DEFINE u == req[r].user
             t == req[r].token
             p == req[r].puuid
             g == req[r].region
  <2>1. /\ req[r] \in Request /\ Knows(req[r]) /\ req[r].step = "account"
        /\ UNCHANGED <<alive, session, cookies, saved>>
        /\ req' = [req EXCEPT ![r] = Idle]
    BY DEF IInv, TypeOK, CreateAccount, At, Finish
  <2>2. /\ u \in Users /\ t \in Tokens
        /\ p \in Puuids /\ p \in {OwnerOf[t], Blank}
        /\ g = RegionOf[OwnerOf[t]] /\ g \in Regions
        /\ <<u, p>> \in saved
    BY <1>2, <2>1 DEF Knows, Request, LinkSteps
  <2>3. req' \in [Requests -> Request] /\ \A s \in Requests : Knows(req[s])'
    BY <2>1, IdleKnows, RequestsStillKnow
  <2> DEFINE a == [user |-> u, region |-> g]
  <2>4. a \in Account /\ a.user = u /\ a.region = g
    BY <2>2 DEF Account
  <2>5. accounts' = [accounts EXCEPT ![p] = a]
    BY <1>2
  <2> HIDE DEF a, u, t, p, g
  <2>6. TypeOK'
    BY <2>1, <2>2, <2>3, <2>4, <2>5 DEF IInv, TypeOK
  <2>7. AccountsCorrect'
    BY <2>1, <2>2, <2>4, <2>5 DEF IInv, TypeOK, AccountsCorrect, Puuids
  <2>8. SessionsRight' /\ CookiesRight'
    BY <2>1 DEF IInv, SessionsRight, CookiesRight
  <2> QED  BY <2>3, <2>6, <2>7, <2>8 DEF IInv
<1> QED  BY <1>1, <1>2 DEF CreateAccount

\* The token is the one stored for the player.
LEMMA GetSessionIInv ==
    ASSUME IInv, NEW r \in Requests, GetSession(r)
    PROVE  IInv'
<1> DEFINE p == req[r].puuid
           t == session[p].token
<1>1. /\ req[r] \in Request /\ Knows(req[r]) /\ req[r].step = "get"
      /\ UNCHANGED <<alive, stores>>
  BY DEF IInv, TypeOK, GetSession, At
<1>2. p \in Players /\ p \in Puuids
  BY <1>1 DEF Knows, UseSteps, Request
<1>3. CASE session[p] # NoSession /\ req' = [req EXCEPT ![r].step = "client", ![r].token = t]
  <2>1. session[p] \in Session /\ OwnerOf[t] = p
    BY <1>2, <1>3 DEF IInv, TypeOK, SessionsRight
  <2>2. t \in Tokens
    BY <2>1 DEF Session
  <2> DEFINE q == [req[r] EXCEPT !.step = "client", !.token = t]
  <2>3. req' = [req EXCEPT ![r] = q]
    BY <1>3
  <2> HIDE DEF t
  <2>4. q \in Request /\ q.step = "client" /\ q.token = t /\ q.puuid = p
    BY <1>1, <2>2 DEF Request, UseSteps
  <2> HIDE DEF q, p
  <2>5. Knows(q)
    BY <1>2, <2>1, <2>2, <2>4 DEF Knows, LinkSteps, UseSteps
  <2> QED  BY <1>1, <2>3, <2>4, <2>5, QuietStep
<1>4. CASE Finish(r)
  BY <1>1, <1>4, FinishIInv
<1> QED  BY <1>3, <1>4 DEF GetSession

\* Only a token that Riot does not accept sends the request to delete the session.
LEMMA NewRiotClientIInv ==
    ASSUME IInv, NEW r \in Requests, NewRiotClient(r)
    PROVE  IInv'
<1>1. /\ req[r] \in Request /\ Knows(req[r]) /\ req[r].step = "client"
      /\ UNCHANGED <<alive, stores>>
  BY DEF IInv, TypeOK, NewRiotClient, At
<1>2. ASSUME NEW step \in {"call", "drop"}, GoTo(r, step),
             step = "drop" => req[r].token \notin alive
      PROVE  IInv'
  <2> DEFINE q == [req[r] EXCEPT !.step = step]
  <2>1. q \in Request /\ q.step = step /\ q.token = req[r].token /\ q.puuid = req[r].puuid
    BY <1>1 DEF Request, UseSteps
  <2>2. req' = [req EXCEPT ![r] = q]
    BY <1>2 DEF GoTo
  <2> HIDE DEF q
  <2>3. Knows(q)
    BY <1>1, <1>2, <2>1 DEF Knows, LinkSteps, UseSteps
  <2> QED  BY <1>1, <2>1, <2>2, <2>3, QuietStep
<1>3. CASE Finish(r)
  BY <1>1, <1>3, FinishIInv
<1> QED  BY <1>2, <1>3 DEF NewRiotClient

\* Keys that are gone are in order.
LEMMA KeysDropped ==
    ASSUME IInv,
           req' \in [Requests -> Request], \A s \in Requests : Knows(req[s])',
           alive' \subseteq alive,
           session' \in [Puuids -> Session \cup {NoSession}],
           cookies' \in [Puuids -> Tokens \cup {NoToken}],
           \A p \in Puuids : session'[p] \in {session[p], NoSession},
           \A p \in Puuids : cookies'[p] \in {cookies[p], NoToken},
           UNCHANGED <<accounts, saved>>
    PROVE  IInv'
<1>1. TypeOK'
  BY DEF IInv, TypeOK
<1>2. SessionsRight' /\ CookiesRight'
  BY DEF IInv, SessionsRight, CookiesRight, Puuids
<1>3. AccountsCorrect'
  BY DEF IInv, AccountsCorrect
<1> QED  BY <1>1, <1>2, <1>3 DEF IInv

\* Both keys go, or an error leaves them.
LEMMA DeleteSessionIInv ==
    ASSUME IInv, NEW r \in Requests, DeleteSession(r)
    PROVE  IInv'
<1>1. UNCHANGED <<alive, accounts, saved>> /\ req' = [req EXCEPT ![r] = Idle]
  BY DEF DeleteSession, Finish
<1>2. req' \in [Requests -> Request] /\ \A s \in Requests : Knows(req[s])'
  BY <1>1, IdleKnows, RequestsStillKnow
<1>3. /\ session' \in [Puuids -> Session \cup {NoSession}]
      /\ cookies' \in [Puuids -> Tokens \cup {NoToken}]
      /\ \A p \in Puuids : session'[p] \in {session[p], NoSession}
      /\ \A p \in Puuids : cookies'[p] \in {cookies[p], NoToken}
  BY DEF IInv, TypeOK, DeleteSession
<1> QED  BY <1>1, <1>2, <1>3, KeysDropped

\* Keys and tokens come to the end of their time.
LEMMA ExpiryIInv ==
    ASSUME IInv,
           \/ \E t \in Tokens : ExpireToken(t)
           \/ \E p \in Puuids : ExpireSession(p) \/ ExpireCookies(p)
    PROVE  IInv'
<1>1. UNCHANGED <<accounts, saved, req>> /\ alive' \subseteq alive
  BY DEF ExpireToken, ExpireSession, ExpireCookies, stores
<1>2. req' \in [Requests -> Request] /\ \A s \in Requests : Knows(req[s])'
  <2>1. ASSUME NEW s \in Requests PROVE Knows(req[s])'
    <3>1. Knows(req[s]) /\ req'[s] = req[s]
      BY <1>1 DEF IInv
    <3> QED  BY <1>1, <3>1 DEF Knows
  <2> QED  BY <1>1, <2>1 DEF IInv, TypeOK
<1>3. /\ session' \in [Puuids -> Session \cup {NoSession}]
      /\ cookies' \in [Puuids -> Tokens \cup {NoToken}]
      /\ \A p \in Puuids : session'[p] \in {session[p], NoSession}
      /\ \A p \in Puuids : cookies'[p] \in {cookies[p], NoToken}
  BY DEF IInv, TypeOK, ExpireToken, ExpireSession, ExpireCookies, stores
<1> QED  BY <1>1, <1>2, <1>3, KeysDropped

\* Nothing but the requests is lost.
LEMMA RestartIInv ==
    ASSUME IInv, Restart
    PROVE  IInv'
<1>1. UNCHANGED <<alive, session, cookies, accounts, saved>> /\ req' = [s \in Requests |-> Idle]
  BY DEF Restart, stores
<1>2. req' \in [Requests -> Request] /\ \A s \in Requests : Knows(req[s])'
  <2>1. ASSUME NEW s \in Requests PROVE Knows(req[s])'
    BY <1>1, IdleKnows DEF Knows
  <2> QED  BY <1>1, <2>1, IdleKnows
<1> QED  BY <1>1, <1>2, KeysDropped DEF IInv, TypeOK

\* The strengthening is preserved by every step.
LEMMA StepIInv ==
    ASSUME IInv, [Next]_vars
    PROVE  IInv'
<1>1. ASSUME NEW r \in Requests, Serve(r)
      PROVE  IInv'
  <2>1. CASE CallRiot(r)
    BY <2>1, FinishIInv DEF CallRiot
  <2> QED  BY <1>1, <2>1, GetEntitlementIInv, GetPlayerInfoIInv, GetRiotGeoIInv, SaveSessionIInv,
              SaveCookiesIInv, CreateAccountIInv, GetSessionIInv, NewRiotClientIInv,
              DeleteSessionIInv DEF Serve
<1>2. CASE UNCHANGED vars
  <2>1. UNCHANGED <<alive, session, cookies, accounts, saved, req>>
    BY <1>2 DEF vars, stores
  <2>2. \A s \in Requests : Knows(req[s])'
    <3>1. ASSUME NEW s \in Requests PROVE Knows(req[s])'
      <4>1. Knows(req[s]) /\ req'[s] = req[s]
        BY <2>1 DEF IInv
      <4> QED  BY <2>1, <4>1 DEF Knows
    <3> QED  BY <3>1
  <2> QED  BY <2>1, <2>2, KeysDropped DEF IInv, TypeOK
<1> QED  BY <1>1, <1>2, ArriveIInv, ExpiryIInv, RestartIInv DEF Next

\* The strengthening is an invariant of every behaviour.
THEOREM Inductive == Spec => []IInv
BY InitIInv, StepIInv, PTL DEF Spec

\* The variables keep their types.
THEOREM TypeCorrect == Spec => []TypeOK
BY Inductive, PTL DEF IInv

\* Overlapping, failing and late links never mix players up.
THEOREM PlayersAreNotMixedUp == Spec => []SessionsOfPlayers
<1>1. IInv => SessionsOfPlayers
  BY DEF IInv, SessionsRight, CookiesRight, Knows, SessionsOfPlayers, At, UseSteps, LinkSteps
<1> QED  BY <1>1, Inductive, PTL

\* An account row has the player's region, and its user has linked the player.
THEOREM AccountRowsAreCorrect == Spec => []AccountsCorrect
BY Inductive, PTL DEF IInv

\* A session ends by its time or after Riot has refused a token of the player.
THEOREM SessionsEndForAReason == Spec => SessionsEndByRefusal
<1>1. ASSUME IInv, [Next]_vars, NEW p \in Players, session[p] # NoSession, session'[p] = NoSession
      PROVE  ExpireSession(p) \/ \E t \in Tokens \ alive : OwnerOf[t] = p
  <2>1. session \in [Puuids -> Session \cup {NoSession}] /\ p \in Puuids
    BY <1>1 DEF IInv, TypeOK, Puuids
  <2>2. ~ UNCHANGED session
    BY <1>1
  <2>3. ASSUME NEW r \in Requests, SaveSession(r)
        PROVE  FALSE
    <3>1. req[r] \in Request /\ Knows(req[r]) /\ req[r].step = "session"
      BY <1>1, <2>3 DEF IInv, TypeOK, SaveSession, At
    <3> DEFINE e == [token |-> req[r].token, region |-> req[r].region]
    <3>2. e \in Session
      BY <3>1 DEF Knows, Request, Session, LinkSteps
    <3>3. session' = [session EXCEPT ![req[r].puuid] = e]
      BY <2>2, <2>3 DEF SaveSession
    <3> HIDE DEF e
    <3> QED  BY <1>1, <2>1, <3>2, <3>3 DEF Session
  <2>4. ASSUME NEW r \in Requests, DeleteSession(r)
        PROVE  \E t \in Tokens \ alive : OwnerOf[t] = p
    <3>1. req[r] \in Request /\ Knows(req[r]) /\ req[r].step = "drop"
      BY <1>1, <2>4 DEF IInv, TypeOK, DeleteSession, At
    <3>2. req[r].puuid = p
      BY <1>1, <2>1, <2>2, <2>4 DEF DeleteSession
    <3> QED  BY <3>1, <3>2 DEF Knows
  <2>5. ASSUME NEW r \in Requests, Serve(r)
        PROVE  \E t \in Tokens \ alive : OwnerOf[t] = p
    BY <2>2, <2>3, <2>4, <2>5 DEF Serve, GetEntitlement, GetPlayerInfo, GetRiotGeo, SaveCookies,
         CreateAccount, GetSession, NewRiotClient, CallRiot, stores
  <2>6. ASSUME NEW r \in Requests, Arrive(r)
        PROVE  FALSE
    BY <2>2, <2>6 DEF Arrive, Link, Use, stores
  <2>7. ASSUME NEW s \in Puuids, ExpireSession(s)
        PROVE  ExpireSession(p)
    BY <1>1, <2>1, <2>7 DEF ExpireSession
  <2>8. ~ Restart /\ ~ UNCHANGED vars /\ \A t \in Tokens : ~ ExpireToken(t)
    BY <2>2 DEF Restart, vars, ExpireToken, stores
  <2>9. \A s \in Puuids : ~ ExpireCookies(s)
    BY <2>2 DEF ExpireCookies
  <2> QED  BY <1>1, <2>5, <2>6, <2>7, <2>8, <2>9 DEF Next
<1>2. IInv /\ [Next]_vars =>
          [\A p \in Players : session[p] # NoSession /\ session'[p] = NoSession =>
               ExpireSession(p) \/ \E t \in Tokens \ alive : OwnerOf[t] = p]_vars
  BY <1>1
<1> QED  BY <1>2, Inductive, PTL DEF Spec, SessionsEndByRefusal
===========================================================================
