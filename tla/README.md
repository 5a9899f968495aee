# A model of ValorantUtil

ValorantUtil is a Go HTTP service (gin, Postgres, Redis) in front of the Riot API. Its users register, link
their Riot accounts, and then ask for storefronts, wallets, ranks, match histories and skins. This directory
holds a TLA+ model of the parts of it in which something can go wrong between two calls: the modules, the
TLC instances that check them, and TLAPS proofs of the properties that matter most.

How to run it (from this directory):

    tlc -workers 2 -config MCAuthTokens.cfg MCAuthTokens      # any MC*.cfg with its module
    tlapm AuthTokensProofs.tla                                # any *Proofs.tla

## 1. Inventory

The service keeps nothing in memory between requests. All state is in Postgres and Redis, in the cookies of
browsers, and with Riot; every HTTP request is a goroutine that makes one call after the other, and there is
no lock anywhere except what a single Redis command or Postgres transaction gives. So the hazards are nearly
all of one kind: *what was read by one call is no longer true at the next one*, and *one call of several
fails*. `PROJECT.json` lists each, at its line.

| Component | State | Operations | Interacts with | What makes it correct |
|---|---|---|---|---|
| Users (`api/v1/users`, `domain/user`, `auth_token_repo`, `middleware/auth`, `pkg/jwt`) | table `users`, `refresh:<uuid>` in Redis, two cookies per browser | Register, Login, Refresh, Logout, Me | every other endpoint sits behind `middleware.Auth` | a refresh token stands for one user, dies once, is in one browser; the cookies of a browser agree |
| Riot login steps (`api/v1/riot`, `pending_auth_repo`) | `riot_login_pending:<id>`, 10 minutes | RiotLogin, RiotLoginMFA, RiotLoginCaptcha | ends in linking | cookies of attempts never mix; an id that was handed out leads on |
| Linked accounts and sessions (`riot/auth`, `riot/client`, `session.go`, `valorant_account_repo`, `deps`) | `session:<puuid>`, `cookies:<puuid>`, table `valorant_accounts` | CompleteAuth, BuildSessionFromTokens, saveAccountAndSession, GetSession, NewRiotClient, DeleteSession | used by every `/valorant` endpoint | what is stored for a player is the player's; a session goes for a reason |
| Match history (`domain/match`, `match_repo`, `riot/match`) | `matches`, `match_players`, `match_kills` | SyncAndGet, GetCached, SaveMatch, GetMatchesByPUUID | Riot API, names of players | matches are stored whole and once, pages are complete, nothing Riot listed is missing |
| Storefront (`valorant/handlers`, `helpers`, `storefront_repo`) | `storefront:<puuid>` with a TTL | GetUserStore, storefrontTTL, Invalidate, Save | asset catalogue for names and images | the cache is not out of date |
| Asset catalogue (`domain/asset`, `assets_repo`, `riot/assets`) | table `assets`, goroutines that write it | GetAsset, BulkGetByType, AddAsset | valorant-api.com | known data stays, gaps are filled, nothing is invented |
| Skins of an account (`GetAccount`, `resolveSkins`, `account_repo`) | `account:<puuid>` without a TTL | GetAccount, Save | entitlements of Riot, asset catalogue | nobody is shown skins the player lacks; force is current |
| Display caches (`player_names_repo`, `account_meta_repo`, `GetAccounts`, `GetMMR`) | `player_name:<puuid>` 7 days, `account_rank:<puuid>` 1 hour | enrichMatchPlayers, fillPlayerNames, GetMMR, GetAccounts | Riot's name service, pages of the match history | a name or rank is shown beside its own player, none is lost on the way to a page, none is shown beyond its time |
| OAuth state, cached match list | `oauth_state:*`, `matches:*` | constructed, called by no handler | - | - |
| Server (`cmd/api/main`, `deps`, `pool`) | the process (starting, up, draining, down) and its pool of database connections | start, listen, signal, shutdown with a limit of ten seconds, restart by Docker | all: every request and every background goroutine takes connections of the pool | it serves only with its stores, loses no connection, exits in time; with limits that a retry meets, who asks again gets the page |
| Configuration, connections to Redis and Postgres | none after the start | NewConfig, NewClient, NewPostgresPool | needed by the start of the server | the process does not go on without them |
| Logging, hashing, swagger docs, stub of an asset service | none | - | - | - |

Interactions. `middleware.Auth` gives handlers a user id and never looks the user up. The end of a Riot login
(PendingAuth) starts a link (RiotSession); each endpoint that needs Riot starts with `GetSession` and
`NewRiotClient` (RiotSession) and goes on with its own calls (MatchSync, StorefrontCache, SkinsCache), and
names and icons come from AssetCatalog. A page of the match history ends with the names of DisplayCaches and
the agents of AssetCatalog. All of them run in the process, and with the pool, of Server, which is where their
time limits and the end of the process meet. The stores of two components are disjoint, so that a step of one
never changes the store of another. A page of skins and its bulk lookup are composed step by step (SkinsCache,
AssetCatalog); elsewhere a call into another component is a step with the outcomes that component can have
(success, or the end of the request).

Behaviours that are hard to test: overlapping requests of one browser or one player; reads of several
queries next to a transaction; a step repeated after it succeeded; errors that are dropped (`DEL` in Logout
and Refresh, `SET` of pending cookies, `DEL` of a session) and calls whose error hides a success; background
goroutines that write after the answer; TTLs that start later than the data they belong to; a shutdown
between any two calls; a synchronisation that takes longer than the write timeout, the client's patience or
the drain time, while others wait for its connection or its row.

## 2. Plan

| # | Module | Composes | Abstract specification | State |
|---|---|---|---|---|
| 1 | `AuthTokens` | `TokenLifecycle` | a token is issued once, spent once | checked, proved |
| 2 | `MatchSync` | `MatchArchive` | a match appears whole and then never changes | checked, proved |
| 3 | `PendingAuth` | - | - | checked, proved |
| 4 | `RiotSession` | - | - | checked, proved |
| 5 | `StorefrontCache` | `FreshCache` | an entry was true at most `Lag` before it was stored, and goes at the end of a section | checked, proved |
| 6 | `AssetCatalog` | - | - | checked, proved |
| 7 | `SkinsCache` | `AssetCatalog`, whose variables and steps it extends | `AssetCatalog` | checked, proved |
| 8 | `DisplayCaches` | `FreshCache`, twice: names and ranks | an entry is of its key, was true at most `Lag` before it was stored, and goes in time | checked, proved |
| 9 | `Server` | abstracts `NewRiotClient`, `MatchSync`, names and agents to what takes time and connections | - | checked, proved |

Left: the precedence of environment, file and defaults in `NewConfig`; names and images of a storefront as a
lookup in `AssetCatalog`, as `SkinsCache` has it.

Each module has its state as VARIABLES, one action per call to Postgres, Redis, Riot or the browser, and
`Faults` as a constant: whether calls may fail (`Server` bounds the number of mishaps instead, `MaxMishaps`).
No module has a RECURSIVE operator. `MC<Module>` gives the constants values; `<Module>Proofs` holds the
theorems.

## 3. The modules and the code

### AuthTokens, TokenLifecycle

`users` is the table, `refresh` maps a uuid to its user (`NoUser`: the key is not there), `issued` are all
uuids ever stored (`uuid.New` never repeats one: `FreshTokens`), `jar[b]` are the two cookies of a browser
and `req[r]` is a request: the step it is at and the local variables of its handler. Register is
`CreateUser; SaveRefreshToken; Respond`, Login is `GetUserByLogin; SaveRefreshToken; Respond`, Refresh is
`GetRefreshToken; DeleteRefreshToken; SaveRefreshToken; Respond` and Logout is `DeleteRefreshToken;
ClearAuthCookies`. A request reads its cookies when it begins and the browser receives new ones with the
answer, so answers of overlapping requests arrive in any order, or are lost. With `Faults`, INSERT and SET
may report an error after they took effect.

A user is identified with its login, and an access token with the user it names: `jwt.Parse` checks a
signature, which always stands for the user id it was made with. The expiry of an access token and that of
its cookie are one event. A wrong password is the outcome "error" of `GetUserByLogin`.

`TokenLifecycle` is what the store promises; the refinement mapping reads `owner` off `refresh`, and `spent`
as the issued tokens that are not live.

### MatchSync, MatchArchive

`matches`, `players` and `kills` are the committed rows, `kills[m]` counts how often the kill events of the
match are stored (`match_kills` has no key but a serial one). `writer[m]` is the request whose open
transaction has inserted the row of `m`: under READ COMMITTED, `INSERT .. ON CONFLICT DO NOTHING` of the
same key waits for it. `SyncAndGet` is `GetHistory`, then for each match `ExistsMatch; GetDetails;
InsertMatch; InsertRows; Commit`, then the reading that `GetCached` consists of alone: `ListMatches`, and
per match `GetPlayers; GetKills`, each a query of its own. An error in the loop skips the match
(`continue`), an error outside it ends the request. `Rollback` is the deferred one.

Riot's list of a player's matches is any set of matches in which the player took part (`Played`); details of
a match always have the same players (`Roster`) and at least one kill event. The statistics of a row are
abstracted to its presence. The rows of one transaction become visible by `Commit` only, so that the INSERTs
of players and kills are one step.

### PendingAuth

`pending` maps a session id to the attempt whose cookie jar it holds. `owner`, `fate` and `handed` are
history: whom an id was generated for, how it last left Redis, which ids clients know. `RiotLogin` starts an
attempt; `RiotLoginStep` is MFA or captcha with an id a client knows. `RiotAnswers` has the three outcomes of
the client: success (`DeletePending`, then `CompleteAuth`), a further challenge (`ReSave` under the old id,
then `SaveChallenge` under a new one) and an error (`ReSave` only). The error of `ReSave` and of
`DeletePending` is dropped, as in the code.

### RiotSession

`alive` are the access tokens Riot accepts; `session`, `cookies` and `accounts` are the stores, `saved` is
history. A link is `GetEntitlement; GetPlayerInfo; GetRiotGeo; SaveSession; SaveCookies; CreateAccount`;
`SaveSession` and `SaveCookies` are the two commands of a pipeline, which Redis may interleave with those of
others. Using an account is `GetSession; NewRiotClient` and then `DeleteSession` when the entitlement call
was answered with 401, or `CallRiot`. `GetPlayerInfo` and `GetRiotGeo` decode the body without looking at
the status: an error answer in JSON gives an empty puuid (`Blank`) or an empty region (`NoRegion`). The
column `region` is an enum, so such a row is refused, after the session was stored.

### StorefrontCache

Time is discrete, `Period[s]` is the period in which a section of the storefront rotates, and Riot reports
`Left(s, t)` for it. A request fetches (`GetStorefront`, at time `at`), enriches offers with names and
images, and only then stores them with the TTL that was right at `at` (`Save`). `Lag` bounds how long
enriching takes; `Tick` does not let a request exceed it. `Tick` also drops the key at its time. `Shortest`
is the loop of `storefrontTTL`: a fold over three durations that passes over zeros.

### AssetCatalog

`assets` is the table (`Blank`: a row without name and icon), `api` what valorant-api.com says at the
moment, `unsaved` what goroutines have yet to write. `GetAsset` returns a row as it is; `BulkGetByType`
passes over blank ones and fetches them again. `Upsert` is `ON CONFLICT DO UPDATE .. WHERE` the row there is
blank. `told` is history. Single lookups use the path of the API as the type of an item and bulk lookups the
uuid of the type, so their keys are disjoint sets.

### SkinsCache

It extends `AssetCatalog`: the variables and actions of the catalogue are its own, and a step of a page that
asks for names is a step of the catalogue in the same request slot. `owned` are the player's skins, `cached`
the entry without TTL, `page[r]` the request for skins. `GetAccount` looks the entry up (`Lookup`) unless it is
forced; `GetSkins` asks Riot for the inventory. A failing inventory call makes the list empty and goes on, and
an empty list asks for no names. Otherwise the page starts `BulkGetByType` and waits (`names`) while the lookup
goes on next to those of other requests (`Catalog`); `BulkNames` takes what was found and leaves the rest
`Blank`. `Save` stores whatever there is. `RestartAll` is the end of the process for both.

### DisplayCaches, FreshCache

A name or a rank is a pair: whose it is and when Riot said it. `names` and `ranks` are the keys in Redis, with
the time at which each ends. A page of the match history sorts the players of a match by score (`Orders`: equal
scores in any order), looks each name up (`GetName`), asks the name service once for those that are missing
(`FillPlayerNames`, which may fail or leave players out) and stores the new ones (`SetMany`, a pipeline whose
SETs other requests may come between). A page has several matches: at `page` a request either goes on with the
next one or answers. `GetMMR; FetchMMR; SaveRank` stores a rank. `GetAccounts` reads a name and a rank for each
account of a page, in any order, since the SELECT has no ORDER BY. `Lag` bounds how long an answer of Riot is on
its way to Redis, and `Tick` ends keys at their time.

`FreshCache` is what a cache with times to live promises: an entry is of its key, was true at most `Lag`
before it was stored, and stays for a time that the answer of that moment allows (`TTLs`). It is instantiated
three times. Names and ranks always have the same time to live (`Always`), and no client gets past them
(`Forced` is FALSE). A storefront has the time that was left of one of its sections when Riot was asked, and a
forced request empties the key (`StorefrontCache!Promise`).

### Server

`phase` is where `main` is: `Start`, one action for each thing that `deps.New` needs (`ReadConfig`,
`ConnectRedis`, `ConnectPostgres`: go on, or `log.Fatal`), `listening` from the goroutine of `ListenAndServe` to
`signal.Notify` (a signal in between kills the process), `serving`, and `draining` from `Shutdown` to `Exit`.
`Gone` is what the end of the process does: open transactions are rolled back, connections closed, goroutines
lost, `stored` kept. `Provide` brings up a store or gives a setting that was missing. `Die` is a kill or the
failure of the listener.

`wants` are clients who wait for a page of the match history, over as many attempts as it takes. An attempt is
the whole handler as far as it takes time or connections. `NewRiotClient` comes first, with two calls
(`FetchClientVersion; GetEntitlement`). With force, `SyncAndGet` follows: `GetHistory`, and per match of the
list `ExistsMatch; GetDetails; InsertMatch; Commit`. Then, with force or without, the page is read
(`ListMatches`, and `ReadMatch` for each match of it), and `enrichMatchPlayers` asks for each match: the name
service once, unless all names are in Redis (`FillPlayerNames`), and for each player the catalogue
(`GetAsset`) and, if the agent is not in it, valorant-api.com (`FetchAsset`). Last comes `Answer`.

A step with Postgres first takes one of the `free` connections (`Acquire`) and gives it back at its end
(`Released`); a transaction keeps its connection from `InsertMatch` to `Commit` (`Kept`). `GiveUp` is a client
that hangs up, for good or to ask again, which cancels the context of the request: a transaction is rolled back,
and calls that have the context fail at once. The two calls of `NewRiotClient` and those of the asset service
do not have it (`DetachedSteps`): they go on, with `gone` set, and the handler ends after them. `Answer` after
the write timeout does not reach the client. `save` are the goroutines of `AddAsset`, which take connections as
well and have a context of their own.

Time passes during calls over the internet (`Tick`), at most `CallTime` per call, which is
`http_client.timeout`; everything else is fast by comparison and takes no time.

## 4. What the runs check

| Run | Result | What it shows | Distinct states |
|---|---|---|---|
| `auth_tokens` | holds | With two requests of two browsers and users overlapping in any way: whoever is named by a token, a cookie or a request past its checks is registered; the cookies of a browser agree; no token is in two browsers; the store implements `TokenLifecycle`. | 405 thousand |
| `match_sync` | holds | Pages have no torn match; a synchronisation without errors lists all that Riot listed; kill events are stored at most once per overlapping request; a row is locked only by a request that is storing that match; the tables implement `MatchArchive`; every request is answered. | 265 thousand |
| `pending_auth` | holds | Cookies of attempts never mix, and an id that a client holds leads on until success or expiry. | 333 thousand |
| `riot_session` | holds | Sessions, cookies and tokens in use are the player's own; account rows are right; a session ends by its time or after Riot refused a token of the player. | 3.4 million |
| `storefront` | holds | No section of what is cached is out of date by `Lag` or more; the cache implements `FreshCache`, so that what is stored was asked for at most `Lag` earlier and lives as long as one of its sections, and a storefront without sections is not cached. | 484 thousand |
| `assets` | holds | Known rows never change, a bulk lookup fills gaps, nothing is invented. | 784 thousand |
| `skins` | holds | Only owned skins are shown, with names the API gave to them; a forced refresh that reached Riot is current. | 281 thousand |
| `display_caches` | holds | Names and ranks are those of the player beside whom they stand; no name is lost between the cache and the name service; nothing is shown longer than its time to live and `Lag`; both caches implement `FreshCache`. | 2.2 million |
| `server` | holds | No connection is lost; requests are served only with the settings and both stores; the process exits in time and cuts off old requests only; somebody can always go on when connections are used up or a row is locked; a request is no older than the calls that lead to its step may take; with limits that a retry meets (`LongEnough`), every client gets its page in the end or hangs up for good. | 189 thousand |
| `match_kills` | violated | `SaveMatch` is described as atomic and matches as "immutable once stored", but two requests that both find a match missing store its kill events twice. | |
| `riot_session_kept` | violated | A request with the old token deletes the session a new link has just stored, although it is said to be kept for 20 days. | |
| `skins_failure` | violated | A failing inventory call is cached for good as an empty inventory, although the cache "always stays up to date". | |

The three violated properties state what the repository says of itself; `PROJECT.json` ("findings") has the
line of the code and the quotation. More divergences were met while modelling and are described here only:

- `users/handlers.go:162` drops the error of `DEL`: a logout can be answered with success while its refresh
  token stays in Redis. The action `DeleteRefreshToken` has this outcome.
- `users/handlers.go:186` and `:201` are GET and DEL, not GETDEL: two overlapping refreshes with one token are
  both answered with a new token. The model allows it, and no property forbids it; that the new tokens are
  different and are not mixed up in a browser (`TokensNotShared`, `CookiesAgree`) holds all the same.
- `pending_auth_repo.go:56` says that the state of a pending login is deleted when it succeeds (and when there
  were too many attempts, which nothing counts). A captcha that is followed by a 2FA code gives the attempt a
  second id (`riot/handlers.go:190`, `riot/helpers.go:60`), and success deletes one of the two; and
  `riot/handlers.go:146` stores the cookies again under an id that another request, which succeeded, has deleted
  in between. The cookies then stay for up to ten minutes.
- `riot/auth/client.go:247` decodes the answer of userinfo without looking at its status, so that an error in
  JSON gives an empty puuid, which `riot/auth/models.go:17` calls the puuid of the player. `GetPlayerInfo` of
  `RiotSession` has this outcome (`Blank`), and an account row under it is possible.
- `valorant/helpers.go:18` says that the key expires exactly at the rotation. The TTL starts after
  enriching, so it does so up to `Lag` later: `StaleForLagOnly` is the bound that holds.
- In the same way names and ranks are shown up to `Lag` longer than the 7 days and the hour of the repository's
  README: `ShownInTime` is the bound that holds.
- `postgres/pool.go:23` and `:24` read 3600 and 300, meant as seconds, as nanoseconds: each connection is closed
  when it is given back. The pool is as large as before, only slower.
- `config.go:116` gives `http_client.timeout` the default 10, next to timeouts in seconds; as a
  `time.Duration` (`config.go:60`, used at `deps.go:59`) it is ten nanoseconds. `config.yaml` says `120s`.
- `config.go:163` binds `LOG_FILE` to `logger.filename`, while the default belongs to `logger.filepath`. The
  README of the repository gives `localhost` as the default of `POSTGRES_HOST`; `config.yaml` says `db`.

The repository's README lists a key `matches:{puuid}` with a TTL of 15 minutes, which nothing writes.

### Bounds, and why they are enough

Two request slots: slots are used again and again, so any number of requests follow one another, and every
hazard listed is a race of two. The theorems of section 6 hold for any number. Users, browsers, players and
matches are two where a property tells two of them apart. Fresh names are what bounds a behaviour: three
refresh tokens (two that race and one before them), four session ids (a captcha and a 2FA code of each of two
attempts). `MatchSync` has one match that both players took part in and one of a single player. `RiotSession`
has one player in a known region and one in a region the enum lacks; the violated run has one player with two
tokens, which a relink takes. `StorefrontCache` runs eight ticks with periods 2, 3 and 5: all of them rotate,
some of them together, and `Lag` 2 is a whole period of one. `AssetCatalog` has one single and two bulk items,
one name and `Blank`: an item is known, blank or not listed. One request slot is enough there since the
goroutines of earlier requests overlap with it. `SkinsCache` has two requests, one skin and one name: two
pages and their lookups race for the cache and the row (with two skins there are more than ten million
states); that names of two skins are not mixed up is `NothingInvented` of the catalogue, and proved. Its
violated run has two skins and one request.

`DisplayCaches` has two players, a match of both and a page of both accounts, a rank that is kept for one tick
and a name for two, `Lag` 1 and three ticks: an entry is stored late, expires, and is stored again. `Server`
has two clients and a goroutine, which are one more than its two connections, and a history of one match
(`Recent`) with one player whose agent is shown (`Players`), so that an attempt makes up to six calls of up to
`CallTime` 1 each: two for the client of Riot, the list, the match, its names and its agent. That is more than
the write timeout (5) and the drain time (1), and just the client's patience (6): each of the limits may strike
in the middle of an attempt, or not. A retry that finds the match stored makes up to five calls, which is
`RetryTime` and just meets the write timeout. With two matches, stored by the attempt (1.02 million states) or
one of them before (`Past`, 638 thousand), the safety properties were checked as well. `MaxMishaps` is 1: one
signal, death or failed call at any point.

What a retry needs is a condition on the configuration, and so a premise of `PageShown` (`LongEnough`), not an
assumption of the module. `config.yaml` does not meet it: it has 120 seconds for a call (`http_client.timeout`)
and 120 seconds for the answer, while a retry makes at least three calls (`NewRiotClient` two, the list one),
and up to 223 for a page of twenty matches of ten players, of which nobody is known. If calls take that long,
every answer may be late, and a client may ask again for ever. Within 120 seconds such a page is shown if no
call takes longer than about half a second; a page grows by the matches stored earlier (`Past`).

Symmetry is used in runs of safety properties only, over constants that `Init` and `Next` treat alike. In
`MatchSync` and `Server`, whose runs check liveness, there is none. In `DisplayCaches`, `MatchSync` and
`RiotSession` players and tokens are never permuted, since the matches, `Roster`, `OwnerOf` and `RegionOf`
tell them apart. `CHECK_DEADLOCK FALSE` is set for `PendingAuth` alone: attempts and ids are used up, after
which the system stops.

### Fairness

`MatchSync!FairSpec` has weak fairness of each request's next call: a handler is a goroutine that the Go
scheduler runs, and each call has a timeout or the request's context. `InsertMatch` has strong fairness: it
is disabled while another transaction holds the row, and Postgres queues the waiting. Nothing is assumed of
the arrival of requests, of failures, or of `Restart`. With an overlapping request that stopped for good
inside a transaction the property would fail (the mutant without the deferred Rollback shows it).

`Server!Spec` has weak fairness of the start and the end of the process (`main` goes on, and Docker has
`restart: unless-stopped`), of `Provide` (an operator brings the stores up), of a client who asks again and of
each step of a handler. `Acquire` and `InsertMatch` have strong fairness: pgxpool gives connections to those
who wait in turn, and Postgres queues those who wait for a row. Nothing is assumed of clients that give up, of
mishaps, which are bounded, or of time: without fairness of `Tick` the answer of a call still comes, within
its bound. `PageShown` is then a property of the code: that the first attempt takes longer than the limits
allow does not matter, since it leaves the matches it stored to the next one (the mutant that fetches stored
matches again loses this), and only what every attempt asks for again has to fit, which is what `LongEnough`
says.

In the other modules no request waits for another, so that each answer follows from weak fairness at once; no
run is spent on it.

## 5. What each property would catch

Each property of a passing run has a mutant in `PROJECT.json`: a variant of one definition, as a plausible
mistake in that code would make it, under which TLC finds the property violated. The variants stand next to
the definitions, each with a comment that says what is wrong with it: a check that is dropped, `break` for
`continue`, an INSERT outside of the transaction, ids or uuids used again, the missing `WHERE`, a client
shared by requests, a TTL of zero.

## 6. What is proved

Eight modules have theorems of the form `Spec => []P` for all values of the constants: any number of requests,
users, matches, players, ids, clients and connections, and any periods and times to live. Each proof shows an
inductive invariant `IInv` from one lemma per action, and the last step is temporal.

- `AuthTokensProofs`: `TypeOK`, `IdentitiesRegistered`, `CookiesAgree`, `TokensNotShared`, `RotationKeepsUser`
  and the refinement of `TokenLifecycle`. None of these is inductive by itself: cookies agree because a token
  that is still on its way in a response belongs to the user of that request, and no two requests or browsers
  hold the same one. The invariant adds that every token a request or a browser holds was issued, that a
  stored token was issued, and that a new token has one holder. `RotationKeepsUser` rests on a second
  invariant (`Carried`): the token that a refresh carries was issued, from the cookie on, so that it can only
  keep its user or lose it.
- `MatchSyncProofs`: `TypeOK`, `PagesComplete`, `SyncReturnsHistory` and the refinement of `MatchArchive`. The
  invariant says that a committed match is whole (`Whole`), that an open transaction is the writer of a match
  it has not committed or the match is there (`Located`), that each match of the history is yet to be visited,
  stored, or skipped with an error (`Accounted`), and which part of the page has been read (`PageSoFar`).
  `CopiesBounded` needs a count (`Counted`): the copies of a match and the requests that are about to store
  one more are together at most as many as there are requests, which are finitely many (`RequestsAssumption`);
  the proof counts with the theorems on finite sets. `LocksHeldByWriters` is inductive together with its
  converse (`Locks`): who writes a match holds its row or has found it stored, so that a commit never stores
  what another has locked.
- `PendingAuthProofs`: `TypeOK`, `AttemptsNeverMix`, `HandedIdsLeadOn`. Ids are owned by the attempt they
  were generated for (`Owned`), a request knows ids and cookies of one attempt (`Knows`), and an id leads on
  from the moment it is on its way to the client, before it is handed out (`Leads`).
- `RiotSessionProofs`: `TypeOK`, `SessionsOfPlayers`, `AccountsCorrect`, `SessionsEndByRefusal`. What a
  request knows at each step (`Knows`) and what the stores hold (`SessionsRight`, `CookiesRight`) support
  each other. That a request at `drop` has been refused with a token of its player gives the action
  property.
- `StorefrontCacheProofs`: `TypeOK`, `StaleForLagOnly`, `EmptyNeverCached`, that `storefrontTTL` returns the
  shortest duration that is not zero (`TTLIsShortest`), and that the cache implements `FreshCache`
  (`StorefrontIsFresh`: the shortest time left is that of some section, which `TTLIsShortest` gives). A
  request that is enriching is younger than `Lag` (`Timely`), and a key ends in time (`EndsInTime`).
- `AssetCatalogProofs`: `TypeOK`, `NothingInvented`, `KnownStaysKnown`, `BulkFillsGaps`. Whatever a request, a
  goroutine or a row holds was once said of that item (`Sound`, with `told` as the history), and a bulk lookup
  that stops asking has left only items of which nothing is known. The module also has the theorems of
  `SkinsCache`. `AccountsUseCatalog` shows that each step of a page is a step of the catalogue or none, so
  that all that holds of the catalogue holds under its pages; then `SkinsAreOwned` and `ForceIsCurrent` follow
  from what the catalogue told (its `IInv`), what a page took from it, and that the inventory only grows
  (`AccountInv`).
- `DisplayCachesProofs`: `TypeOK`, `ShownToOwner`, `PagesNamed`, `ShownInTime`, and that both caches implement
  `FreshCache` (`CachesFresh`). What a request holds is of its player, and young while it is on its way to
  Redis (`Healthy`); what a cache holds ends in time (`InTime`).
- `ServerProofs`: `TypeOK`, `PoolAccounted`, `ReadyWhenServing`, `ShutdownTimed` (`ExitsInTime` and
  `NothingCutYoung`). A request holds a connection at steps with Postgres only and a transaction always does
  (`Sound`), a phase has found what those before it need (`Equipped`), a process that is not open serves
  nobody (`Closed`), and a request that is there while the process drains is at least as old as the draining
  (`Aged`). `NobodyStuck` follows from these: connections that are not free are held, and the transaction
  another waits for is past its INSERT. `PaceKept` is part of the invariant as well (`Paced`): `CallsBefore`
  counts the calls that may lead to each step, over the two of `NewRiotClient`, the list, the matches, and the
  names and agents of the page, and needs where in its loops a request is (`Placed`). Each step goes on to one
  with at least the calls made so far (`Ready`), and during a call the age grows with the time of the call.
  `AnswersInTime` concludes that no answer is late if the write timeout is at least `CallTime * (3 + Recent +
  (Past + Recent) * (1 + Players))`, which covers every call that a request may make. For twenty matches of
  ten players, none of them stored before, these are 243 calls. The configuration of the repository does not
  meet this (120 seconds for a call, 120 seconds for the answer); what is left then is that attempts build on
  each other, as `PageShown` says under its own, weaker condition, which `config.yaml` does not meet either
  (section 4).

Assumptions are those of the modules (ASSUME), which say that the names for "nothing" are not among the values
and that `Roster`, `OwnerOf`, `RegionOf` and `Period` are functions of the right kind, that requests, clients
and players of a match are finitely many, and that the times and bounds of `Server` are numbers. A type
invariant is proved with each.

Three statements are proved only, and no run has them: `RotationKeepsUser`, an action property about a step
and the request that takes it; `EmptyNeverCached`, which is part of what the refinement of `FreshCache` says
in the run `storefront`; and the types of the variables that `SkinsCache` adds (`AccountTypeOK`).

Only model-checked: `RequestsAnswered` and `PageShown`, since liveness under fairness is out of the prover's
reach. `NobodyStuck` and `LocksHeldByWriters` are the safety part of them that is proved: nobody who is waited
for waits. The proofs use no fairness.

## 7. Assumptions about the outside

- An access token belongs to one player, and its id token to the same one.
- Riot answers each question about a player, and details of a match, always in the same way; a match has
  players and a kill event.
- Riot reports at least one second for a section that is there. Redis keeps what it has stored until its TTL
  ends; keys with a TTL may end at any moment in the modules that have no clock.
- Postgres transactions are READ COMMITTED, the default that the code does not change.
- A user is not deleted (no code does).
- In `Server` the session of a player who asks for a page is in Redis: without it each attempt is answered with
  401 until the player links the account again. Every player of a match has an agent, and each match of the
  list is one of the player's. A client asks again after its last handler has ended; one whose client is gone
  holds no connection and stores no match any more.
- In `StorefrontCache` a section rotates as a whole: the bundles of the shop, each of which has a duration of
  its own that is shown beside it (`helpers.go:168`), are one section with the period that the TTL counts
  (`helpers.go:22`).
- In `RiotSession` the access token and the id token of a login are one token.

## 8. What is not modelled, and why

- OAuth state and the cached match list: no handler calls them. `AccountRepo.Invalidate`,
  `SessionRepo.GetCookies` and `Client.Login` neither.
- Wallet, content and loadout clients: single calls that read. They are `CallRiot` in `RiotSession`.
- What several pages of linked accounts show together: the rows are in no order, which `PROJECT.json` lists as a
  hazard; nothing in the repository promises one.
- The precedence of environment, file and defaults in `NewConfig`, and values that are there but of no use.
- Life times of connections, and the pool of go-redis, which no request holds across calls.
- Logging, the swagger docs, bcrypt, parsing of URLs, formatting of items: sequential code without state that
  outlives a call.
