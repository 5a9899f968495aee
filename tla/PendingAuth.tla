---------------------------- MODULE PendingAuth ----------------------------
(***************************************************************************)
(* A login to Riot that needs further steps (2FA code, captcha).  Between  *)
(* the HTTP requests of one attempt its Riot cookies wait in Redis under a *)
(* session id, which the client got with the challenge.  A request reads   *)
(* the cookies, asks Riot, and then stores the cookies again, stores them  *)
(* under a new id, or deletes them.                                        *)
(***************************************************************************)
CONSTANTS Ids,        \* session ids
          Attempts,   \* attempts to log in at Riot, one cookie jar each
          Requests,   \* slots for concurrent HTTP requests
          NoId, NoAttempt,
          Faults      \* whether calls to Redis and Riot may fail

ASSUME NoIdAssumption == NoId \notin Ids
ASSUME NoAttemptAssumption == NoAttempt \notin Attempts
ASSUME FaultsAssumption == Faults \in BOOLEAN

VARIABLES pending,   \* Redis: riot_login_pending:<id>, the attempt whose cookies it holds
          owner,     \* the attempt an id was generated for
          fate,      \* what last removed an id from Redis, if anything
          handed,    \* the ids that clients know
          started,   \* the attempts that have begun
          req        \* the requests being served

vars == <<pending, owner, fate, handed, started, req>>

Steps == {"get", "riot", "resave", "challenge", "respond", "delete", "complete"}
Fates == {"open", "expired", "deleted"}

Request == [step : Steps \cup {"idle"},
            id : Ids \cup {NoId},                  \* the id the client sent
            attempt : Attempts \cup {NoAttempt},   \* the cookie jar in use
            challenged : BOOLEAN,                  \* Riot asked for another step
            new : Ids \cup {NoId}]                 \* the id to be handed out
Idle == [step |-> "idle", id |-> NoId, attempt |-> NoAttempt, challenged |-> FALSE, new |-> NoId]

TypeOK == /\ pending \in [Ids -> Attempts \cup {NoAttempt}]
          /\ owner \in [Ids -> Attempts \cup {NoAttempt}]
          /\ fate \in [Ids -> Fates]
          /\ handed \subseteq Ids
          /\ started \subseteq Attempts
          /\ req \in [Requests -> Request]

Init == /\ pending = [i \in Ids |-> NoAttempt]
        /\ owner = [i \in Ids |-> NoAttempt]
        /\ fate = [i \in Ids |-> "open"]
        /\ handed = {}
        /\ started = {}
        /\ req = [r \in Requests |-> Idle]

At(r, step) == req[r].step = step
GoTo(r, step) == req' = [req EXCEPT ![r].step = step]
Finish(r) == req' = [req EXCEPT ![r] = Idle]

---------------------------------------------------------------------------
\* POST /riot/login: a new jar with the cookies of InitAuthCookies.
RiotLogin(r) ==
    /\ req[r] = Idle
    /\ \E a \in Attempts \ started :
           /\ started' = started \cup {a}
           /\ req' = [req EXCEPT ![r] = [Idle EXCEPT !.step = "riot", !.attempt = a]]
    /\ UNCHANGED <<pending, owner, fate, handed>>

\* POST /riot/login/mfa or /riot/login/captcha.
RiotLoginStep(r, i) ==
    /\ req[r] = Idle
    /\ req' = [req EXCEPT ![r] = [Idle EXCEPT !.step = "get", !.id = i]]
    /\ UNCHANGED <<pending, owner, fate, handed, started>>

GetPending(r) ==
    LET a == pending[req[r].id] IN
    /\ At(r, "get")
    /\ \/ a # NoAttempt /\ req' = [req EXCEPT ![r].step = "riot", ![r].attempt = a]
       \/ (a = NoAttempt \/ Faults) /\ Finish(r)
    /\ UNCHANGED <<pending, owner, fate, handed, started>>

\* Authorize or SubmitMFA: success, another challenge, or an error.  The first
\* request of an attempt has no id, hence nothing to delete or to store again.
RiotAnswers(r) ==
    LET first == req[r].id = NoId IN
    /\ At(r, "riot")
    /\ \/ GoTo(r, IF first THEN "complete" ELSE "delete")
       \/ req' = [req EXCEPT ![r].step = IF first THEN "challenge" ELSE "resave",
                             ![r].challenged = TRUE]
       \/ ~ first /\ GoTo(r, "resave")
       \/ first /\ Finish(r)
    /\ UNCHANGED <<pending, owner, fate, handed, started>>

Stored(i, a) == [pending EXCEPT ![i] = a]

ReSaveInstead(r) ==   \* a step that Riot refuses gives the cookies up
    /\ At(r, "resave")
    /\ pending' = Stored(req[r].id, NoAttempt)
    /\ IF req[r].challenged THEN GoTo(r, "challenge") ELSE Finish(r)
    /\ UNCHANGED <<owner, fate, handed, started>>
\* "Save the updated cookies": under the id the client sent, whatever has
\* become of it since GetPending; an error of SET is dropped.
ReSave(r) ==
    /\ At(r, "resave")
    /\ \/ pending' = Stored(req[r].id, req[r].attempt)
       \/ Faults /\ UNCHANGED pending
    /\ IF req[r].challenged THEN GoTo(r, "challenge") ELSE Finish(r)
    /\ UNCHANGED <<owner, fate, handed, started>>

FreshIdsFree == {i \in Ids : pending[i] = NoAttempt}   \* ids are used again
FreshIds == {i \in Ids : owner[i] = NoAttempt}

SaveChallengeNoId(r) ==   \* an error of the generator is dropped, and the id is empty
    /\ At(r, "challenge")
    /\ GoTo(r, "respond")
    /\ UNCHANGED <<pending, owner, fate, handed, started>>
\* handleAuthChallengeOrError: the cookies are stored under a new id.
SaveChallenge(r) ==
    /\ At(r, "challenge")
    /\ \/ \E i \in FreshIds :
              /\ pending' = Stored(i, req[r].attempt)
              /\ owner' = [owner EXCEPT ![i] = req[r].attempt]
              /\ \/ req' = [req EXCEPT ![r].step = "respond", ![r].new = i]
                 \/ Faults /\ Finish(r)
       \/ Faults /\ Finish(r) /\ UNCHANGED <<pending, owner>>
    /\ UNCHANGED <<fate, handed, started>>

RespondChallenge(r) ==
    /\ At(r, "respond")
    /\ handed' = handed \cup {req[r].new} \/ (Faults /\ UNCHANGED handed)
    /\ Finish(r)
    /\ UNCHANGED <<pending, owner, fate, started>>

\* After success; an error of DEL is dropped.
DeletePending(r) ==
    LET i == req[r].id IN
    /\ At(r, "delete")
    /\ \/ pending' = Stored(i, NoAttempt) /\ fate' = [fate EXCEPT ![i] = "deleted"]
       \/ Faults /\ UNCHANGED <<pending, fate>>
    /\ GoTo(r, "complete")
    /\ UNCHANGED <<owner, handed, started>>

\* completeAndRespond; what it stores is the subject of RiotSession.
CompleteAuth(r) ==
    /\ At(r, "complete")
    /\ Finish(r)
    /\ UNCHANGED <<pending, owner, fate, handed, started>>

\* The TTL of ten minutes.
Expire(i) == /\ pending[i] # NoAttempt
             /\ pending' = Stored(i, NoAttempt)
             /\ fate' = [fate EXCEPT ![i] = "expired"]
             /\ UNCHANGED <<owner, handed, started, req>>

\* The process stops and is started again.
Restart == /\ Faults
           /\ req' = [r \in Requests |-> Idle]
           /\ UNCHANGED <<pending, owner, fate, handed, started>>

---------------------------------------------------------------------------
Serve(r) == \/ GetPending(r) \/ RiotAnswers(r) \/ ReSave(r) \/ SaveChallenge(r)
            \/ RespondChallenge(r) \/ DeletePending(r) \/ CompleteAuth(r)

Next == \/ \E r \in Requests : \/ Serve(r) \/ RiotLogin(r)
                               \/ \E i \in handed : RiotLoginStep(r, i)
        \/ \E i \in Ids : Expire(i)
        \/ Restart

Spec == Init /\ [][Next]_vars

---------------------------------------------------------------------------
(* Properties.                                                             *)

\* Attempts never mix: the cookies under an id, and the cookies with which a
\* request that was sent this id talks to Riot, are those of the attempt the id was
\* handed out for, also when several requests store under it.
AttemptsNeverMix ==
    /\ \A i \in Ids : pending[i] \in {owner[i], NoAttempt}
    /\ \A r \in Requests : req[r].id # NoId /\ ~ At(r, "get") => req[r].attempt = owner[req[r].id]

\* An id that a client was given leads on until the attempt has succeeded or
\* its ten minutes are over: a wrong code or a failing step does not use it up.
HandedIdsLeadOn == \A i \in handed : pending[i] = NoAttempt => fate[i] # "open"
===========================================================================
