----------------------------- MODULE RiotSession -----------------------------
(***************************************************************************)
(* Linked Riot accounts.  Linking asks Riot whose access token it was given *)
(* and where that player plays, stores the session in Redis under the      *)
(* puuid, and then the account row in Postgres.  Using an account reads    *)
(* the session and asks Riot for an entitlement; when Riot refuses the     *)
(* token, the session stored under the puuid is deleted.                   *)
(*                                                                         *)
(* Riot's userinfo and geo calls are decoded without a look at the status, *)
(* so an error answer yields an empty puuid (Blank) or an empty region.    *)
(* NoRegion is that, and any other region that valorant_region lacks.      *)
(***************************************************************************)
CONSTANTS Users, Players, Tokens, Regions, Requests,
          OwnerOf,    \* the player an access token was issued to
          RegionOf,   \* where Riot says that a player plays
          Blank, NoRegion, NoUser, NoToken, NoSession, NoAccount,
          Faults      \* whether calls to Riot, Redis and Postgres may fail

ASSUME OwnerOfAssumption == OwnerOf \in [Tokens -> Players]
ASSUME RegionOfAssumption == RegionOf \in [Players -> Regions \cup {NoRegion}]
ASSUME BlankAssumption == Blank \notin Players
ASSUME NoRegionAssumption == NoRegion \notin Regions
ASSUME NoTokenAssumption == NoToken \notin Tokens
ASSUME NoSessionAssumption == NoSession \notin [token : Tokens, region : Regions \cup {NoRegion}]
ASSUME NoAccountAssumption == NoAccount \notin [user : Users, region : Regions]
ASSUME FaultsAssumption == Faults \in BOOLEAN

VARIABLES alive,      \* the access tokens that Riot accepts
          session,    \* Redis: session:<puuid>
          cookies,    \* Redis: cookies:<puuid>, named by the token they were stored with
          accounts,   \* Postgres: valorant_accounts, by puuid
          saved,      \* <<user, puuid>> of every session that was ever stored
          req         \* the requests being served

vars == <<alive, session, cookies, accounts, saved, req>>

Puuids == Players \cup {Blank}
Session == [token : Tokens, region : Regions \cup {NoRegion}]
Account == [user : Users, region : Regions]

LinkSteps == {"entitlement", "playerinfo", "geo", "session", "cookies", "account"}
UseSteps == {"get", "client", "drop", "call"}

Request == [step : LinkSteps \cup UseSteps \cup {"idle"},
            user : Users \cup {NoUser},
            token : Tokens \cup {NoToken},
            puuid : Puuids,
            region : Regions \cup {NoRegion}]
Idle == [step |-> "idle", user |-> NoUser, token |-> NoToken, puuid |-> Blank, region |-> NoRegion]

TypeOK == /\ alive \subseteq Tokens
          /\ session \in [Puuids -> Session \cup {NoSession}]
          /\ cookies \in [Puuids -> Tokens \cup {NoToken}]
          /\ accounts \in [Puuids -> Account \cup {NoAccount}]
          /\ saved \subseteq Users \X Puuids
          /\ req \in [Requests -> Request]

Init == /\ alive = Tokens
        /\ session = [p \in Puuids |-> NoSession]
        /\ cookies = [p \in Puuids |-> NoToken]
        /\ accounts = [p \in Puuids |-> NoAccount]
        /\ saved = {}
        /\ req = [r \in Requests |-> Idle]

At(r, step) == req[r].step = step
GoTo(r, step) == req' = [req EXCEPT ![r].step = step]
Finish(r) == req' = [req EXCEPT ![r] = Idle]
stores == <<session, cookies, accounts, saved>>

---------------------------------------------------------------------------
(* Linking.                                                                *)

\* The end of a Riot login, a pasted redirect URL, or the legacy callback: in the
\* last two the client chooses the token, which may have expired.
Link(r, u, t) == /\ req[r] = Idle
                 /\ req' = [req EXCEPT ![r] = [Idle EXCEPT !.step = "entitlement", !.user = u,
                                                           !.token = t]]
                 /\ UNCHANGED <<alive, stores>>

GetEntitlement(r) == /\ At(r, "entitlement")
                     /\ \/ req[r].token \in alive /\ GoTo(r, "playerinfo")
                        \/ (req[r].token \notin alive \/ Faults) /\ Finish(r)
                     /\ UNCHANGED <<alive, stores>>

GetPlayerInfo(r) ==
    /\ At(r, "playerinfo")
    /\ \/ /\ req[r].token \in alive
          /\ req' = [req EXCEPT ![r].step = "geo", ![r].puuid = OwnerOf[req[r].token]]
       \/ /\ req[r].token \notin alive \/ Faults
          /\ GoTo(r, "geo") \/ Finish(r)       \* the puuid stays blank
    /\ UNCHANGED <<alive, stores>>

GetRiotGeoShared(r) ==   \* the answer to another request, through a client they share
    /\ At(r, "geo")
    /\ \E p \in Players : req' = [req EXCEPT ![r].step = "session", ![r].region = RegionOf[p]]
    /\ UNCHANGED <<alive, stores>>
GetRiotGeo(r) ==
    /\ At(r, "geo")
    /\ \/ /\ req[r].token \in alive
          /\ req' = [req EXCEPT ![r].step = "session",
                                ![r].region = RegionOf[OwnerOf[req[r].token]]]
       \/ /\ req[r].token \notin alive \/ Faults
          /\ GoTo(r, "session") \/ Finish(r)   \* the region stays empty
    /\ UNCHANGED <<alive, stores>>

SaveSessionDropsError(r) ==   \* the error is logged, and the account row stored
    /\ At(r, "session")
    /\ GoTo(r, "cookies")
    /\ \/ /\ session' = [session EXCEPT ![req[r].puuid] =
                            [token |-> req[r].token, region |-> req[r].region]]
          /\ saved' = saved \cup {<<req[r].user, req[r].puuid>>}
       \/ Faults /\ UNCHANGED <<session, saved>>
    /\ UNCHANGED <<alive, cookies, accounts>>
\* The first SET of the pipeline.  A pipeline is no transaction: commands of other
\* requests may run between its two.  An error may be reported all the same.
SaveSession(r) ==
    /\ At(r, "session")
    /\ \/ /\ session' = [session EXCEPT ![req[r].puuid] =
                            [token |-> req[r].token, region |-> req[r].region]]
          /\ saved' = saved \cup {<<req[r].user, req[r].puuid>>}
          /\ GoTo(r, "cookies") \/ (Faults /\ Finish(r))
       \/ Faults /\ Finish(r) /\ UNCHANGED <<session, saved>>
    /\ UNCHANGED <<alive, cookies, accounts>>

\* The second SET.
SaveCookies(r) ==
    /\ At(r, "cookies")
    /\ \/ /\ cookies' = [cookies EXCEPT ![req[r].puuid] = req[r].token]
          /\ GoTo(r, "account") \/ (Faults /\ Finish(r))
       \/ Faults /\ Finish(r) /\ UNCHANGED cookies
    /\ UNCHANGED <<alive, session, accounts, saved>>

CreateAccountAnyRegion(r) ==   \* the column is a text
    /\ At(r, "account")
    /\ accounts' = [accounts EXCEPT ![req[r].puuid] =
                       [user |-> req[r].user, region |-> req[r].region]]
    /\ Finish(r)
    /\ UNCHANGED <<alive, session, cookies, saved>>
\* INSERT ... ON CONFLICT (puuid) DO UPDATE; the enum refuses other regions.
CreateAccount(r) ==
    /\ At(r, "account")
    /\ \/ /\ req[r].region \in Regions
          /\ accounts' = [accounts EXCEPT ![req[r].puuid] =
                             [user |-> req[r].user, region |-> req[r].region]]
       \/ /\ req[r].region = NoRegion \/ Faults
          /\ UNCHANGED accounts
    /\ Finish(r)
    /\ UNCHANGED <<alive, session, cookies, saved>>

---------------------------------------------------------------------------
(* Using a linked account: store, wallet, rank, matches, skins.            *)

Use(r, p) == /\ req[r] = Idle
             /\ req' = [req EXCEPT ![r] = [Idle EXCEPT !.step = "get", !.puuid = p]]
             /\ UNCHANGED <<alive, stores>>

GetSession(r) ==
    LET s == session[req[r].puuid] IN
    /\ At(r, "get")
    /\ \/ /\ s # NoSession
          /\ req' = [req EXCEPT ![r].step = "client", ![r].token = s.token]
       \/ /\ s = NoSession \/ Faults
          /\ Finish(r)
    /\ UNCHANGED <<alive, stores>>

NewRiotClientDropping(r) ==   \* any failure counts as an expired token
    /\ At(r, "client")
    /\ \/ req[r].token \in alive /\ GoTo(r, "call")
       \/ (req[r].token \notin alive \/ Faults) /\ GoTo(r, "drop")
    /\ UNCHANGED <<alive, stores>>
\* The client version, then the entitlement: 401 means that the token has expired.
NewRiotClient(r) ==
    /\ At(r, "client")
    /\ \/ req[r].token \in alive /\ GoTo(r, "call")
       \/ req[r].token \notin alive /\ GoTo(r, "drop")
       \/ Faults /\ Finish(r)
    /\ UNCHANGED <<alive, stores>>

\* One DEL of both keys, whatever they hold by now; its error is dropped.
DeleteSession(r) ==
    /\ At(r, "drop")
    /\ \/ /\ session' = [session EXCEPT ![req[r].puuid] = NoSession]
          /\ cookies' = [cookies EXCEPT ![req[r].puuid] = NoToken]
       \/ Faults /\ UNCHANGED <<session, cookies>>
    /\ Finish(r)
    /\ UNCHANGED <<alive, accounts, saved>>

\* The calls to Riot for the data that was asked for, and the answer.
CallRiot(r) == /\ At(r, "call")
               /\ Finish(r)
               /\ UNCHANGED <<alive, stores>>

---------------------------------------------------------------------------
(* Time: Riot's tokens expire, and so do the keys, one by one.             *)

ExpireToken(t) == /\ t \in alive
                  /\ alive' = alive \ {t}
                  /\ UNCHANGED <<stores, req>>

ExpireSession(p) == /\ session[p] # NoSession
                    /\ session' = [session EXCEPT ![p] = NoSession]
                    /\ UNCHANGED <<alive, cookies, accounts, saved, req>>

ExpireCookies(p) == /\ cookies[p] # NoToken
                    /\ cookies' = [cookies EXCEPT ![p] = NoToken]
                    /\ UNCHANGED <<alive, session, accounts, saved, req>>

Restart == /\ Faults
           /\ req' = [r \in Requests |-> Idle]
           /\ UNCHANGED <<alive, stores>>

---------------------------------------------------------------------------
Serve(r) == \/ GetEntitlement(r) \/ GetPlayerInfo(r) \/ GetRiotGeo(r)
            \/ SaveSession(r) \/ SaveCookies(r) \/ CreateAccount(r)
            \/ GetSession(r) \/ NewRiotClient(r) \/ DeleteSession(r) \/ CallRiot(r)

Arrive(r) == \/ \E u \in Users, t \in Tokens : Link(r, u, t)
             \/ \E p \in Players : Use(r, p)

Next == \/ \E r \in Requests : Serve(r) \/ Arrive(r)
        \/ \E t \in Tokens : ExpireToken(t)
        \/ \E p \in Puuids : ExpireSession(p) \/ ExpireCookies(p)
        \/ Restart

Spec == Init /\ [][Next]_vars

---------------------------------------------------------------------------
(* Properties.                                                             *)

\* Links of several players that overlap, fail half-way or meet an expired
\* token never mix players up: what is stored under a player's puuid, and the
\* token with which a request for a player calls Riot, are that player's.
SessionsOfPlayers ==
    /\ \A p \in Players :
           /\ session[p] # NoSession => /\ OwnerOf[session[p].token] = p
                                        /\ session[p].region \in {RegionOf[p], NoRegion}
           /\ cookies[p] # NoToken => OwnerOf[cookies[p]] = p
    /\ \A r \in Requests : At(r, "client") \/ At(r, "call") => OwnerOf[req[r].token] = req[r].puuid

\* The row of a player has the player's region, and its user has stored a
\* session of the player: failed links leave no wrong row behind.
AccountsCorrect ==
    \A p \in Players : accounts[p] # NoAccount =>
        /\ accounts[p].region = RegionOf[p]
        /\ <<accounts[p].user, p>> \in saved

\* A session disappears when its time is over or after Riot has refused a
\* token of the player; a failing call alone never costs the user the session.
SessionsEndByRefusal ==
    [][\A p \in Players : session[p] # NoSession /\ session'[p] = NoSession =>
           ExpireSession(p) \/ \E t \in Tokens \ alive : OwnerOf[t] = p]_vars

\* "After linking, the session is kept in Redis for 20 days": while Riot accepts
\* its token, only its own expiry takes it away.
SessionsKept ==
    [][\A p \in Players : session[p] # NoSession /\ session'[p] = NoSession =>
           session[p].token \notin alive \/ ExpireSession(p)]_vars
===========================================================================
