--------------------------- MODULE DisplayCaches ---------------------------
(***************************************************************************)
(* Names and ranks shown beside puuids, and the two caches that hold them. *)
(* A page of the match history looks every player's name up in Redis, asks *)
(* Riot's name service once for those that are missing, and stores what it *)
(* said, key by key.  GET /valorant/mmr stores a rank; GET /users/accounts *)
(* only reads.  Requests overlap in any way.                               *)
(*                                                                         *)
(* A name or rank is a pair of whose it is and when Riot said it, so that  *)
(* its age and its owner can be seen; time is a counter.                   *)
(***************************************************************************)
EXTENDS Integers, Sequences, FiniteSets

CONSTANTS Puuids,
          Matches,    \* stored matches: the score of each of their players
          Lists,      \* pages of Riot accounts linked by a user
          WithSession,  \* players whose Riot session is stored
          Requests,   \* slots for concurrent requests
          NameTTL,    \* playerNameTTL
          RankTTL,    \* accountMetaTTL
          Lag,        \* bound: how long an answer of Riot may be on its way to Redis
          MaxTime,    \* bound of the clock
          NoEntry,
          Faults      \* whether calls to Redis and Riot may fail

ASSUME MatchesAssumption == \A m \in Matches : /\ DOMAIN m \subseteq Puuids
                                               /\ DOMAIN m # {} /\ IsFiniteSet(DOMAIN m)
ASSUME ListsAssumption == /\ \A l \in Lists : l \subseteq Puuids /\ IsFiniteSet(l)
                          /\ WithSession \subseteq Puuids
ASSUME TTLAssumption == NameTTL \in Nat \ {0} /\ RankTTL \in Nat \ {0} /\ Lag \in Nat
ASSUME MaxTimeAssumption == MaxTime \in Nat
ASSUME NoEntryAssumption == /\ NoEntry \notin [of : Puuids, at : Nat]
                            /\ NoEntry \notin [of : Puuids, at : Nat, until : Nat]

VARIABLES now,
          names,   \* Redis: player_name:<puuid>
          ranks,   \* Redis: account_rank:<puuid>
          req      \* the requests being served

vars == <<now, names, ranks, req>>
caches == <<names, ranks>>

Fact == [of : Puuids, at : Nat]                  \* what Riot said of a player, and when
Entry == [of : Puuids, at : Nat, until : Nat]    \* the same in Redis
Nothing == [p \in Puuids |-> NoEntry]

Request == [step : {"idle", "lookup", "fetch", "store", "page", "mmr", "save",
                    "account", "rank", "answer"},
            rows : Seq(Puuids),                     \* the players of the page, in order
            pos : Nat,                              \* the row the handler is at
            name : [Puuids -> Fact \cup {NoEntry}],   \* the map called cached
            rank : [Puuids -> Fact \cup {NoEntry}],
            toStore : SUBSET Puuids,                \* names on their way to Redis
            failed : BOOLEAN]                       \* Riot left a name out
Idle == [step |-> "idle", rows |-> <<>>, pos |-> 1, name |-> Nothing, rank |-> Nothing,
         toStore |-> {}, failed |-> FALSE]

TypeOK == /\ now \in Nat
          /\ names \in [Puuids -> Entry \cup {NoEntry}]
          /\ ranks \in [Puuids -> Entry \cup {NoEntry}]
          /\ req \in [Requests -> Request]

Init == /\ now = 0
        /\ names = Nothing
        /\ ranks = Nothing
        /\ req = [r \in Requests |-> Idle]

---------------------------------------------------------------------------
At(r, step) == req[r].step = step
GoTo(r, step) == req' = [req EXCEPT ![r].step = step]
Finish(r) == req' = [req EXCEPT ![r] = Idle]
Serving(r, step, rows) == req' = [req EXCEPT ![r] = [Idle EXCEPT !.step = step, !.rows = rows]]

Row(r) == req[r].rows[req[r].pos]
RowsOf(r) == {req[r].rows[i] : i \in DOMAIN req[r].rows}

\* What Riot says now, what Redis keeps of it, and what a reader gets back.
Said(p) == [of |-> p, at |-> now]
Kept(fact, ttl) == [of |-> fact.of, at |-> fact.at, until |-> now + ttl]
Read(entry) == [of |-> entry.of, at |-> entry.at]

\* The two outcomes of a GET: found, or missing; an error counts as missing.
Found(cache, p) == cache[p] # NoEntry
NotFound(cache, p) == cache[p] = NoEntry \/ Faults

---------------------------------------------------------------------------
(* GET /valorant/matches/{puuid}, from the stored matches on (MatchSync).  *)

\* Players of a match by falling score; those of equal scores in any order.
Orders(m) == {rows \in [1..Cardinality(DOMAIN m) -> DOMAIN m] :
                  \A i, j \in DOMAIN rows : i < j => /\ rows[i] # rows[j]
                                                     /\ m[rows[i]] >= m[rows[j]]}
ToMatchDTO(r, m) == \E rows \in Orders(m) : Serving(r, "lookup", rows)

GetMatchHistory(r, m) == /\ req[r] = Idle \/ At(r, "page")
                         /\ ToMatchDTO(r, m)
                         /\ UNCHANGED <<now, caches>>

AfterLookup(r) == IF req[r].pos < Len(req[r].rows) THEN "lookup" ELSE "fetch"

GetNameRenews(r) ==   \* a hit starts the time to live again
    LET found == Found(names, Row(r)) IN
    /\ At(r, "lookup")
    /\ req' = [req EXCEPT ![r].step = AfterLookup(r), ![r].pos = @ + 1,
                          ![r].name[Row(r)] = IF found THEN Read(names[Row(r)]) ELSE @]
    /\ names' = IF found THEN [names EXCEPT ![Row(r)].until = now + NameTTL] ELSE names
    /\ UNCHANGED <<now, ranks>>
\* enrichMatchPlayers: one GET per player.
GetName(r) ==
    /\ At(r, "lookup")
    /\ \/ /\ Found(names, Row(r))
          /\ req' = [req EXCEPT ![r].step = AfterLookup(r), ![r].pos = @ + 1,
                                ![r].name[Row(r)] = Read(names[Row(r)])]
       \/ /\ NotFound(names, Row(r))
          /\ req' = [req EXCEPT ![r].step = AfterLookup(r), ![r].pos = @ + 1]
    /\ UNCHANGED <<now, caches>>

MissingInRedis(r) == {p \in RowsOf(r) : names[p] = NoEntry}   \* looks at Redis again
Missing(r) == {p \in RowsOf(r) : req[r].name[p] = NoEntry}

NameServiceByPosition(r, said) ==   \* the answer is read by position, not by Subject
    [p \in Puuids |-> IF p \in said THEN Said(CHOOSE q \in Missing(r) : TRUE) ELSE req[r].name[p]]
\* What the name service says of the players asked for; it may leave some out.
NameService(r, said) == [p \in Puuids |-> IF p \in said THEN Said(p) ELSE req[r].name[p]]

ToStoreAll(r, said) == said \cup {p \in RowsOf(r) : req[r].name[p] # NoEntry}   \* the map called cached
\* The names that are new, apart from those that came from the cache.
ToStore(r, said) == said

\* fillPlayerNames: nothing missing, one PUT for all that are missing, or its error.
FillPlayerNames(r) ==
    /\ At(r, "fetch")
    /\ \/ Missing(r) = {} /\ GoTo(r, "page")
       \/ \E said \in SUBSET Missing(r) :
              /\ Missing(r) # {}
              /\ req' = [req EXCEPT ![r].step = "store", ![r].toStore = ToStore(r, said),
                                    ![r].name = NameService(r, said),
                                    ![r].failed = said # Missing(r)]
       \/ /\ Missing(r) # {} /\ Faults
          /\ req' = [req EXCEPT ![r].step = "page", ![r].failed = TRUE]
    /\ UNCHANGED <<now, caches>>

\* SetMany: a pipeline of SETs in the order of a Go map, between which other requests
\* come; it may break off.  The error is logged.
SetMany(r) ==
    /\ At(r, "store")
    /\ \/ \E p \in req[r].toStore :
              /\ names' = [names EXCEPT ![p] = Kept(req[r].name[p], NameTTL)]
              /\ req' = [req EXCEPT ![r].toStore = @ \ {p}]
       \/ /\ req[r].toStore = {} \/ Faults
          /\ req' = [req EXCEPT ![r].toStore = {}, ![r].step = "page"]
          /\ UNCHANGED names
    /\ UNCHANGED <<now, ranks>>

---------------------------------------------------------------------------
(* GET /valorant/mmr/{puuid}; the session and its client are in RiotSession. *)
GetMMR(r, p) == /\ req[r] = Idle
                /\ Serving(r, "mmr", <<p>>)
                /\ UNCHANGED <<now, caches>>

FetchMMR(r) == /\ At(r, "mmr")
               /\ \/ req' = [req EXCEPT ![r].step = "save", ![r].rank[Row(r)] = Said(Row(r))]
                  \/ Finish(r)
               /\ UNCHANGED <<now, caches>>

SaveRankAsRead(r) ==   \* stored as a text without its time to live
    /\ At(r, "save")
    /\ ranks' = [ranks EXCEPT ![Row(r)] = req[r].rank[Row(r)]]
    /\ GoTo(r, "answer")
    /\ UNCHANGED <<now, names>>
SaveRankForGood(r) ==   \* SET without the time to live
    /\ At(r, "save")
    /\ ranks' = [ranks EXCEPT ![Row(r)] = Kept(req[r].rank[Row(r)], MaxTime + 1)]
    /\ GoTo(r, "answer")
    /\ UNCHANGED <<now, names>>
SaveRank(r) ==
    /\ At(r, "save")
    /\ \/ ranks' = [ranks EXCEPT ![Row(r)] = Kept(req[r].rank[Row(r)], RankTTL)]
       \/ Faults /\ UNCHANGED ranks
    /\ GoTo(r, "answer")
    /\ UNCHANGED <<now, names>>

---------------------------------------------------------------------------
(* GET /users/accounts: nothing is fetched that the caches do not hold.    *)

\* A page of the user's accounts: the SELECT does not order them.
GetAccountsList(accounts) == Orders([p \in accounts |-> 0])

GetAccounts(r, accounts) ==
    /\ req[r] = Idle
    /\ \E rows \in GetAccountsList(accounts) :
           Serving(r, IF accounts = {} THEN "answer" ELSE "account", rows)
    /\ UNCHANGED <<now, caches>>

GetAccountName(r) ==
    /\ At(r, "account")
    /\ \/ /\ Found(names, Row(r))
          /\ req' = [req EXCEPT ![r].step = "rank", ![r].name[Row(r)] = Read(names[Row(r)])]
       \/ NotFound(names, Row(r)) /\ GoTo(r, "rank")
    /\ UNCHANGED <<now, caches>>

GetAccountRank(r) ==
    /\ At(r, "rank")
    /\ LET next == IF req[r].pos < Len(req[r].rows) THEN "account" ELSE "answer" IN
       \/ /\ Found(ranks, Row(r))
          /\ req' = [req EXCEPT ![r].step = next, ![r].pos = @ + 1,
                                ![r].rank[Row(r)] = Read(ranks[Row(r)])]
       \/ /\ NotFound(ranks, Row(r))
          /\ req' = [req EXCEPT ![r].step = next, ![r].pos = @ + 1]
    /\ UNCHANGED <<now, caches>>

---------------------------------------------------------------------------
Answer(r) == /\ At(r, "page") \/ At(r, "answer")
             /\ Finish(r)
             /\ UNCHANGED <<now, caches>>

\* Redis drops a key when its time is over.
Left(cache) == [p \in Puuids |-> IF cache[p] # NoEntry /\ cache[p].until <= now + 1
                                   THEN NoEntry ELSE cache[p]]
Tick == /\ now < MaxTime
        /\ \A r \in Requests : /\ \A p \in req[r].toStore : now < req[r].name[p].at + Lag
                               /\ At(r, "save") => now < req[r].rank[Row(r)].at + Lag
        /\ now' = now + 1
        /\ names' = Left(names)
        /\ ranks' = Left(ranks)
        /\ UNCHANGED req

Restart == /\ Faults
           /\ req' = [r \in Requests |-> Idle]
           /\ UNCHANGED <<now, caches>>

Serve(r) == \/ GetName(r) \/ FillPlayerNames(r) \/ SetMany(r)
            \/ FetchMMR(r) \/ SaveRank(r)
            \/ GetAccountName(r) \/ GetAccountRank(r)
            \/ Answer(r)

Arrive(r) == \/ \E m \in Matches : GetMatchHistory(r, m)
             \/ \E p \in WithSession : GetMMR(r, p)
             \/ \E accounts \in Lists : GetAccounts(r, accounts)

Next == \/ \E r \in Requests : Serve(r) \/ Arrive(r)
        \/ Tick
        \/ Restart

Spec == Init /\ [][Next]_vars

---------------------------------------------------------------------------
(* Properties.                                                             *)

\* A name or rank that a page shows beside a player, or that is about to be stored
\* under the player's key, is the player's: whatever the sorting of the rows, the
\* players that the name service leaves out, and the other requests that write.
ShownToOwner == \A r \in Requests, p \in Puuids :
                    /\ req[r].name[p] # NoEntry => req[r].name[p].of = p
                    /\ req[r].rank[p] # NoEntry => req[r].rank[p].of = p

\* A page of the match history names every player, unless Riot failed or left one out:
\* no name gets lost between the cache, which forgets and is filled by others in the
\* meantime, and the one call for those that it did not hold.
PagesNamed == \A r \in Requests :
                  At(r, "page") /\ ~req[r].failed => \A p \in RowsOf(r) : req[r].name[p] # NoEntry

\* What a page takes from anywhere was true less than the time to live and Lag ago,
\* although late SETs of overlapping requests replace newer names by older ones.
ShownInTime ==
    [][\A r \in Requests, p \in Puuids :
          /\ req[r].name[p] = NoEntry /\ req'[r].name[p] # NoEntry
             => now < req'[r].name[p].at + NameTTL + Lag
          /\ req[r].rank[p] = NoEntry /\ req'[r].rank[p] # NoEntry
             => now < req'[r].rank[p].at + RankTTL + Lag]_vars

\* Each cache by itself implements FreshCache: an entry is of its key, is stored within
\* Lag of what Riot said, and is gone after its time to live.
Always(ttl) == [t \in Nat |-> {ttl}]
Names == INSTANCE FreshCache WITH Keys <- Puuids, TTLs <- Always(NameTTL), Forced <- FALSE, held <- names
Ranks == INSTANCE FreshCache WITH Keys <- Puuids, TTLs <- Always(RankTTL), Forced <- FALSE, held <- ranks

NamesFresh == Names!Spec
RanksFresh == Ranks!Spec
CachesFresh == NamesFresh /\ RanksFresh
===========================================================================
