------------------------------- MODULE Server -------------------------------
(***************************************************************************)
(* The life of the server process, and what requests share in it: the pool *)
(* of database connections and time.  The process reads its settings,      *)
(* connects to Redis and Postgres, listens, and on a signal drains for     *)
(* some time; Docker starts it again.  The requests are for a page of the  *)
(* match history, the longest ones: a client of Riot is made with two      *)
(* calls, with force Riot is asked for the list of matches and for each    *)
(* match that is not stored, and each match of the page may take a call    *)
(* for the names and one for the agent of each player.  What is stored     *)
(* survives the process; what a match is made of is in MatchSync, what the *)
(* page shows beside it in DisplayCaches and AssetCatalog.                 *)
(*                                                                         *)
(* Time passes in ticks during calls over the internet; other steps take   *)
(* none.                                                                   *)
(***************************************************************************)
EXTENDS Naturals, FiniteSets

CONSTANTS Clients,       \* each has one request under way at most
          Savers,        \* goroutines that save assets in the background
          Recent,        \* how many matches Riot lists
          Past,          \* how many matches of the player were stored before
          Players,       \* how many players a match has
          MaxConns,      \* postgres.pool.max_connections
          WriteTimeout,  \* server.write_timeout, since the request was read
          DrainTime,     \* how long Shutdown waits for requests
          CallTime,      \* bound: how long one call takes, http_client.timeout at most
          Patience,      \* bound: a client waits for that long at least
          MaxMishaps     \* bound: how often the process is stopped or dies, or a call fails

ASSUME WorkersAssumption == IsFiniteSet(Clients) /\ IsFiniteSet(Savers)
ASSUME TimesAssumption == /\ WriteTimeout \in Nat /\ DrainTime \in Nat
                          /\ CallTime \in Nat /\ Patience \in Nat
ASSUME BoundsAssumption == /\ Recent \in Nat /\ Past \in Nat /\ Players \in Nat \ {0}
                           /\ MaxConns \in Nat \ {0} /\ MaxMishaps \in Nat

VARIABLES phase,    \* where main is
          missing,  \* what the process needs and does not find
          drain,    \* time since Shutdown was called
          mishaps,  \* how often that happened
          stored,   \* Postgres: the matches that are stored, newest first
          free,     \* connections of the pool that nobody holds
          wants,    \* clients that wait for the page, over all their attempts
          save,     \* the background goroutines
          req       \* the handler of each client

vars == <<phase, missing, drain, mishaps, stored, free, wants, save, req>>
process == <<phase, missing, drain, mishaps>>

\* What NewConfig does not go on without: its file, and the values that validateConfig
\* looks at and that have no default.
Settings == {"config.yaml", "postgres.dbname", "postgres.host", "postgres.port",
             "postgres.user", "riot.assets_api_base_url"}
Needs == Settings \cup {"redis", "postgres"}
Open == {"listening", "serving", "draining"}
Phases == {"down", "settings", "redis", "postgres"} \cup Open

\* Calls over the internet.  Those of NewRiotClient and of the asset service do not have the
\* context of the request: they go on when its client is gone.
OutsideSteps == {"version", "entitlement", "history", "details", "names", "asset"}
DetachedSteps == {"version", "entitlement", "asset"}
LoopSteps == {"exists", "details", "insert", "commit"}
EnrichSteps == {"names", "agent", "asset"}
DbSteps == {"exists", "insert", "commit", "list", "read", "agent"}

Longest == Past + Recent   \* matches on a page

Request == [step : {"idle", "answer"} \cup OutsideSteps \cup DbSteps,
            match : 1..Longest + 1,  \* the match that a loop is at
            listed : 0..Longest,     \* the matches of the page
            player : 1..Players,     \* the player of a match whose agent is looked up
            conn : BOOLEAN,          \* holds a connection
            gone : BOOLEAN,          \* its client has hung up
            age : Nat,               \* time since the request was read
            call : Nat]              \* time since the call began
Idle == [step |-> "idle", match |-> 1, listed |-> 0, player |-> 1,
         conn |-> FALSE, gone |-> FALSE, age |-> 0, call |-> 0]

Busy(c) == req[c].step # "idle"
At(c, step) == req[c].step = step

TypeOK == /\ phase \in Phases
          /\ missing \subseteq Needs
          /\ drain \in Nat /\ mishaps \in Nat
          /\ stored \subseteq 1..Recent
          /\ free \in Nat
          /\ wants \subseteq Clients
          /\ save \in [Savers -> {"none", "saving"}]
          /\ req \in [Clients -> Request]

Init == /\ phase = "down"
        /\ missing = Needs
        /\ drain = 0 /\ mishaps = 0
        /\ stored = {}
        /\ free = MaxConns
        /\ wants = {}
        /\ save = [s \in Savers |-> "none"]
        /\ req = [c \in Clients |-> Idle]

---------------------------------------------------------------------------
(* The process.                                                            *)

\* restart: unless-stopped.
Start == /\ phase = "down"
         /\ phase' = "settings"
         /\ UNCHANGED <<missing, drain, mishaps, stored, free, wants, save, req>>

\* One step of deps.New: what it needs is there, or log.Fatal.
Needed(step, needs, next) ==
    /\ phase = step
    /\ phase' = IF needs \cap missing = {} THEN next ELSE "down"
    /\ UNCHANGED <<missing, drain, mishaps, stored, free, wants, save, req>>

ReadConfig == Needed("settings", Settings, "redis")
ConnectRedis == Needed("redis", {"redis"}, "postgres")
ConnectPostgresLazily ==   \* the pool is made without a ping
    /\ phase = "postgres"
    /\ phase' = "listening"
    /\ UNCHANGED <<missing, drain, mishaps, stored, free, wants, save, req>>
ConnectPostgres == Needed("postgres", {"postgres"}, "listening")

\* signal.Notify, after the goroutine that listens has been started.
Notify == /\ phase = "listening"
          /\ phase' = "serving"
          /\ UNCHANGED <<missing, drain, mishaps, stored, free, wants, save, req>>

\* The process is gone: transactions are rolled back, connections closed.
Gone == /\ phase' = "down"
        /\ drain' = 0
        /\ free' = MaxConns
        /\ save' = [s \in Savers |-> "none"]
        /\ req' = [c \in Clients |-> Idle]
        /\ UNCHANGED <<missing, stored, wants>>

\* SIGTERM, or SIGINT: until Notify it ends the process at once.
Signal == /\ phase # "down" /\ phase # "draining" /\ mishaps < MaxMishaps
          /\ mishaps' = mishaps + 1
          /\ \/ phase = "serving" /\ phase' = "draining"
                /\ UNCHANGED <<missing, drain, stored, free, wants, save, req>>
             \/ phase # "serving" /\ Gone

\* It is killed, or the listener fails (log.Fatalf).
Die == /\ phase # "down" /\ mishaps < MaxMishaps
       /\ mishaps' = mishaps + 1
       /\ Gone

TimeoutForgotten == FALSE   \* Shutdown(context.Background())
\* The context of Shutdown.
TimeIsUp == drain >= DrainTime

\* Shutdown returns once nobody is served, or with an error when time is up.
ShutdownReturns == (\A c \in Clients : ~Busy(c)) \/ TimeIsUp

Exit == /\ phase = "draining"
        /\ ShutdownReturns
        /\ Gone
        /\ UNCHANGED mishaps

\* A setting is given, or a store comes up.
Provide == \E need \in missing :
               /\ missing' = missing \ {need}
               /\ UNCHANGED <<phase, drain, mishaps, stored, free, wants, save, req>>

---------------------------------------------------------------------------
(* A request.                                                              *)
Want(c) == /\ c \notin wants
           /\ wants' = wants \cup {c}
           /\ UNCHANGED <<process, stored, free, save, req>>

AcceptsWhileDraining == phase \in Open   \* the listener is closed last
\* Shutdown closes the listener first.
Accepts == phase \in {"listening", "serving"}

\* GET /valorant/matches/{puuid}, first attempt or retry, when the session is in Redis;
\* otherwise it is answered with 401 at once, and the client waits on.
GetMatchHistory(c) == /\ c \in wants /\ ~Busy(c) /\ Accepts
                      /\ req' = [req EXCEPT ![c].step = "version"]
                      /\ UNCHANGED <<process, stored, free, wants, save>>

\* NewRiotClient: two calls, which a client that hangs up does not end.
FetchClientVersion(c) == /\ At(c, "version")
                         /\ req' = [req EXCEPT ![c].step = "entitlement", ![c].call = 0]
                         /\ UNCHANGED <<process, stored, free, wants, save>>

\* With force (SyncAndGet) or without (GetCached); either fails at once when the client is gone.
GetEntitlement(c) == /\ At(c, "entitlement")
                     /\ IF req[c].gone
                        THEN req' = [req EXCEPT ![c] = Idle]
                        ELSE \E step \in {"history", "list"} :
                                 req' = [req EXCEPT ![c].step = step, ![c].call = 0]
                     /\ UNCHANGED <<process, stored, free, wants, save>>

\* A connection is free, or the request waits for one.
Acquire(c) == /\ req[c].step \in DbSteps /\ ~req[c].conn
              /\ free > 0
              /\ free' = free - 1
              /\ req' = [req EXCEPT ![c].conn = TRUE]
              /\ UNCHANGED <<process, stored, wants, save>>

\* The query is over and its rows are read: the connection is free again.
Released(c, q) == /\ free' = free + 1
                  /\ req' = [req EXCEPT ![c] = [q EXCEPT !.conn = FALSE]]
Kept(c, step) == /\ req' = [req EXCEPT ![c].step = step]
                 /\ UNCHANGED free

LoopStepBeyond(m) == IF m <= Recent + 1 THEN "exists" ELSE "list"   \* one item too many
LoopStep(m) == IF m <= Recent THEN "exists" ELSE "list"
NextMatch(q) == [q EXCEPT !.step = LoopStep(q.match + 1), !.match = q.match + 1, !.call = 0]

GetHistory(c) == /\ At(c, "history")
                 /\ req' = [req EXCEPT ![c].step = LoopStep(1), ![c].call = 0]
                 /\ UNCHANGED <<process, stored, free, wants, save>>

ExistsMatchIgnored(c) ==   \* what is stored is fetched again
    /\ At(c, "exists") /\ req[c].conn
    /\ Released(c, [req[c] EXCEPT !.step = "details"])
    /\ UNCHANGED <<process, stored, wants, save>>
ExistsMatch(c) ==
    /\ At(c, "exists") /\ req[c].conn
    /\ \/ req[c].match \in stored /\ Released(c, NextMatch(req[c]))
       \/ req[c].match \notin stored /\ Released(c, [req[c] EXCEPT !.step = "details"])
    /\ UNCHANGED <<process, stored, wants, save>>

GetDetailsRetried(c) ==   \* an error of Riot is not the end of the call
    /\ At(c, "details")
    /\ \E step \in {"insert", "details"} : req' = [req EXCEPT ![c].step = step, ![c].call = 0]
    /\ UNCHANGED <<process, stored, free, wants, save>>
GetDetails(c) == /\ At(c, "details")
                 /\ req' = [req EXCEPT ![c].step = "insert", ![c].call = 0]
                 /\ UNCHANGED <<process, stored, free, wants, save>>

\* A transaction that has inserted the row of a match and is open.
Writing(m) == \E c \in Clients : At(c, "commit") /\ req[c].match = m /\ m \notin stored

\* SaveMatch holds its connection from Begin to Commit; its INSERT waits for another
\* transaction that inserts the same match.
InsertMatch(c) == /\ At(c, "insert") /\ req[c].conn
                  /\ ~Writing(req[c].match)
                  /\ Kept(c, "commit")
                  /\ UNCHANGED <<process, stored, wants, save>>

Commit(c) == /\ At(c, "commit")
             /\ stored' = stored \cup {req[c].match}
             /\ Released(c, NextMatch(req[c]))
             /\ UNCHANGED <<process, wants, save>>

Found == Past + Cardinality(stored)   \* every match of the history is the player's
Listed(q) == [q EXCEPT !.step = IF Found > 0 THEN "read" ELSE "answer",
                       !.match = 1, !.listed = Found]

ListMatchesOpen(c) ==   \* the rows of the list stay open, with their connection, meanwhile
    /\ At(c, "list") /\ req[c].conn
    /\ req' = [req EXCEPT ![c] = [Listed(@) EXCEPT !.conn = FALSE]]
    /\ UNCHANGED <<process, stored, free, wants, save>>
\* GetMatchesByPUUID: the rows of the list are read to their end before the next query.
ListMatches(c) == /\ At(c, "list") /\ req[c].conn
                  /\ Released(c, Listed(req[c]))
                  /\ UNCHANGED <<process, stored, wants, save>>

\* enrichMatchPlayers for match m: the name service is asked unless all names are in Redis.
EnrichFrom(q, m) ==
    IF m > q.listed THEN {[q EXCEPT !.step = "answer", !.match = 1, !.player = 1]}
    ELSE {[q EXCEPT !.step = step, !.match = m, !.player = 1] : step \in {"names", "agent"}}
NextPlayer(q) == IF q.player < Players
                 THEN {[q EXCEPT !.step = "agent", !.player = q.player + 1]}
                 ELSE EnrichFrom(q, q.match + 1)

\* getPlayers and getKills of each match that was listed.
ReadMatch(c) ==
    /\ At(c, "read") /\ req[c].conn
    /\ IF req[c].match < req[c].listed
       THEN Released(c, [req[c] EXCEPT !.match = req[c].match + 1])
       ELSE \E q \in EnrichFrom(req[c], 1) : Released(c, q)
    /\ UNCHANGED <<process, stored, wants, save>>

\* The one call for the names of a match; an error leaves them out.
FillPlayerNames(c) == /\ At(c, "names")
                      /\ req' = [req EXCEPT ![c].step = "agent", ![c].call = 0]
                      /\ UNCHANGED <<process, stored, free, wants, save>>

\* GetAsset: the agent is a row of the catalogue, or the API is asked; errors are passed over.
GetAsset(c) == /\ At(c, "agent") /\ req[c].conn
               /\ \E q \in {[req[c] EXCEPT !.step = "asset"]} \cup NextPlayer(req[c]) :
                      Released(c, q)
               /\ UNCHANGED <<process, stored, wants, save>>
FetchAsset(c) == /\ At(c, "asset")
                 /\ \E q \in IF req[c].gone THEN {Idle} ELSE NextPlayer([req[c] EXCEPT !.call = 0]) :
                        req' = [req EXCEPT ![c] = q]
                 /\ UNCHANGED <<process, stored, free, wants, save>>

\* After the write timeout the answer does not reach the client.
InTime(c) == req[c].age <= WriteTimeout
Answer(c) == /\ At(c, "answer")
             /\ wants' = IF InTime(c) THEN wants \ {c} ELSE wants
             /\ req' = [req EXCEPT ![c] = Idle]
             /\ UNCHANGED <<process, stored, free, save>>

\* A call fails: a transaction is rolled back, the loop goes on with the next match, and any
\* other error is the answer, a session that Riot no longer accepts among them.
CallFails(c) ==
    /\ req[c].step \in (OutsideSteps \cup DbSteps) \ EnrichSteps /\ mishaps < MaxMishaps
    /\ mishaps' = mishaps + 1
    /\ free' = IF req[c].conn THEN free + 1 ELSE free
    /\ req' = [req EXCEPT ![c] = IF @.step \in LoopSteps
                                 THEN [NextMatch(@) EXCEPT !.conn = FALSE]
                                 ELSE Idle]
    /\ UNCHANGED <<phase, missing, drain, stored, wants, save>>

HangsUp(c) == \/ c \in wants /\ wants' = wants \ {c}               \* for good
              \/ req[c].age >= Patience /\ UNCHANGED wants         \* to ask again

GiveUpNoRollback(c) ==   \* no deferred Rollback: the connection is never given back
    /\ Busy(c) /\ ~req[c].gone /\ HangsUp(c)
    /\ req' = [req EXCEPT ![c] = Idle]
    /\ UNCHANGED <<process, stored, free, save>>
\* The client closes its connection: the context of the request is cancelled, so that the
\* calls that have it fail at once, and the transaction is rolled back.
GiveUp(c) == /\ Busy(c) /\ ~req[c].gone /\ HangsUp(c)
             /\ free' = IF req[c].conn THEN free + 1 ELSE free
             /\ req' = [req EXCEPT ![c] = IF @.step \in DetachedSteps
                                          THEN [@ EXCEPT !.gone = TRUE] ELSE Idle]
             /\ UNCHANGED <<process, stored, save>>

---------------------------------------------------------------------------
(* Assets that some page has fetched are saved in the background, with a   *)
(* context of their own; nobody waits for that (AssetCatalog).             *)
SaveAssets(s) == /\ phase \in Open /\ save[s] = "none" /\ free > 0
                 /\ free' = free - 1
                 /\ save' = [save EXCEPT ![s] = "saving"]
                 /\ UNCHANGED <<process, stored, wants, req>>

\* AddAsset is over; the goroutine may have another asset to save.
AddAsset(s) == /\ save[s] = "saving"
               /\ free' = free + 1
               /\ save' = [save EXCEPT ![s] = "none"]
               /\ UNCHANGED <<process, stored, wants, req>>

---------------------------------------------------------------------------
\* Calls are under way for less than their time limit, and nothing else is: no query, and not
\* main between its start of the listener and Notify.
OnlyOutside ==
    /\ phase # "listening"
    /\ \A c \in Clients : Busy(c) => req[c].step \in OutsideSteps /\ req[c].call < CallTime
    /\ \A s \in Savers : save[s] = "none"

Older(q) == IF q.step = "idle" THEN q ELSE [q EXCEPT !.age = @ + 1, !.call = @ + 1]

Tick == /\ OnlyOutside
        /\ ~(phase = "draining" /\ ShutdownReturns)
        /\ drain' = IF phase = "draining" THEN drain + 1 ELSE drain
        /\ req' = [c \in Clients |-> Older(req[c])]
        /\ UNCHANGED <<phase, missing, mishaps, stored, free, wants, save>>

Boot == Start \/ ReadConfig \/ ConnectRedis \/ ConnectPostgres \/ Notify

Handle(c) == \/ FetchClientVersion(c) \/ GetEntitlement(c)
             \/ GetHistory(c) \/ ExistsMatch(c) \/ GetDetails(c) \/ Commit(c)
             \/ ListMatches(c) \/ ReadMatch(c)
             \/ FillPlayerNames(c) \/ GetAsset(c) \/ FetchAsset(c) \/ Answer(c)

Next == \/ Boot \/ Provide \/ Signal \/ Die \/ Exit \/ Tick
        \/ \E c \in Clients : \/ Want(c) \/ GetMatchHistory(c) \/ GiveUp(c) \/ CallFails(c)
                              \/ Acquire(c) \/ InsertMatch(c) \/ Handle(c)
        \/ \E s \in Savers : SaveAssets(s) \/ AddAsset(s)

\* Docker starts the process and main goes on; the stores come up; a client asks again; a
\* handler goes on.  Those who wait for a connection or for a row are served in turn.
Fairness == /\ WF_vars(Boot) /\ WF_vars(Provide) /\ WF_vars(Exit)
            /\ \A c \in Clients : /\ WF_vars(Handle(c)) /\ WF_vars(GetMatchHistory(c))
                                  /\ SF_vars(Acquire(c)) /\ SF_vars(InsertMatch(c))
            /\ \A s \in Savers : WF_vars(AddAsset(s))

Spec == Init /\ [][Next]_vars /\ Fairness

---------------------------------------------------------------------------
(* Properties.                                                             *)

\* No connection is lost or given back twice, whatever ends a request: its answer, a client
\* that gives up within a transaction, or the end of the process.
Holding == {c \in Clients : req[c].conn}
Saving == {s \in Savers : save[s] = "saving"}
PoolAccounted == free + Cardinality(Holding) + Cardinality(Saving) = MaxConns

\* Nobody is served by a process that has not found its settings and both stores.
ReadyWhenServing == \A c \in Clients : Busy(c) => missing = {}

\* Shutdown does not wait for longer than its limit, however long Riot takes.
ExitsInTime == drain <= DrainTime

\* A process that drains cuts off only requests that it has served for that long.
NothingCutYoung ==
    [][phase = "draining" /\ phase' = "down" /\ mishaps' = mishaps
       => \A c \in Clients : Busy(c) => req[c].age >= DrainTime]_vars

\* The limit of Shutdown is kept from both sides.
ShutdownTimed == []ExitsInTime /\ NothingCutYoung

\* Nobody holds what others wait for while waiting itself: with all connections taken, or
\* a transaction that waits for the row of another, somebody holds a connection and has
\* all that it needs to give it back.
WaitsForRow(c) == At(c, "insert") /\ req[c].conn /\ Writing(req[c].match)
NobodyStuck ==
    free = 0 \/ (\E c \in Clients : WaitsForRow(c))
    => Saving # {} \/ \E c \in Holding : ~WaitsForRow(c)

\* How many calls over the internet a request has made before its present step, at most: two
\* for the client of Riot, one for the list and one for each match with force, and for each
\* match of the page one for the names and one for the agent of each player.
PerMatch == 1 + Players
CallsBefore(q) ==
    CASE q.step \in {"idle", "version"} -> 0
      [] q.step = "entitlement" -> 1
      [] q.step = "history" -> 2
      [] q.step \in {"exists", "details"} -> 2 + q.match
      [] q.step \in {"insert", "commit"} -> 3 + q.match
      [] q.step \in {"list", "read"} -> 3 + Recent
      [] q.step = "names" -> 3 + Recent + (q.match - 1) * PerMatch
      [] q.step \in {"agent", "asset"} -> 3 + Recent + (q.match - 1) * PerMatch + q.player
      [] q.step = "answer" -> 3 + Recent + q.listed * PerMatch

\* As far as time passes during calls, a request has been served no longer than the calls
\* that lead to its step may take, whatever was skipped, failed or stored by others on the
\* way: no call is made twice, and none in vain.
PaceKept == \A c \in Clients : req[c].age <= CallTime * CallsBefore(req[c]) + req[c].call

\* A retry that finds all matches stored is answered in time, and its client waits for it,
\* even if no name and no agent is known.  An attempt with matches to store may take longer.
RetryTime == CallTime * (3 + Longest * PerMatch)
LongEnough == RetryTime <= WriteTimeout /\ RetryTime < Patience

\* With such limits whoever wants a page gets it in the end or hangs up for good, although
\* the answer of an attempt that stores matches may be late, or cut off: it leaves what it
\* stored to the next, and nobody waits for ever for a connection or for another's row.
PageShown == LongEnough => \A c \in Clients : c \in wants ~> c \notin wants
=============================================================================
